---- MODULE Spec2Model ----
(***************************************************************************)
(* Document text extraction of ohg-scribe                                  *)
(* (src-tauri/src/commands/vocabulary_extract.rs).                         *)
(*                                                                         *)
(* One call of extract_document_text is modelled as a sequential process:  *)
(* the facade derives the lower-cased extension of the path, dispatches to *)
(* the plain-text read, extract_docx_text, extract_pdf_text or             *)
(* extract_pptx_text, or rejects the path.                                 *)
(*                                                                         *)
(* Strings are sequences of tokens.  A token is one character or one       *)
(* indivisible chunk of characters ("ppt/slides/slide", ".xml", "Hello");  *)
(* the chunks are chosen so that no chunk is a concatenation of others.    *)
(* The bytes of a plain-text file are sequences of integers 0..255.        *)
(***************************************************************************)
EXTENDS Integers, Sequences, FiniteSets, TLC

VARIABLES
    path,        \* the path argument, a token sequence
    file,        \* the file the path names (content does not change)
    pc,          \* position of the call
    route,       \* arm of the match on the extension that was taken
    opened,      \* TRUE once the call has touched the file system
    result,      \* Result<String, String> of the call
    text,        \* `text` accumulator of extract_docx_text / extract_pptx_text
    rest,        \* remaining docx.document.children
    idx,         \* index of the (0..archive.len()) enumeration, 1-based
    slide_files, \* Vec<String> of matched slide member names
    cur,         \* slide_name of the running loop iteration
    xmlRest,     \* unread part of the current slide's markup
    slide_text,  \* per-slide text buffer
    calls,       \* number of calls made on the path so far
    prev,        \* result of the call before the running one
    saved,       \* the locals of a second call that is not running now
    userFile,    \* vocabularies/user/vocabularies.json
    vpc,         \* position of each vocabulary command that is under way
    vop,         \* the command and its arguments
    vloc,        \* user_data of the command, as loaded
    vret,        \* what the command returned
    nextId,      \* number of ids generated by Uuid::new_v4 so far
    vcalls,      \* number of vocabulary commands invoked so far
    hfiles,      \* the files of the history directory
    hexpect,     \* per id, the last string saved and not deleted since
    hret,        \* the last history command: its id and what it returned
    tin,         \* `text` argument of extract_vocabulary_terms
    tout         \* `truncated`, or the panic of the slice

docVars == <<path, file, pc, route, opened, result, text, rest, idx,
             slide_files, cur, xmlRest, slide_text, calls, prev, saved>>

vocVars == <<userFile, vpc, vop, vloc, vret, nextId, vcalls>>

histVars == <<hfiles, hexpect, hret>>

truncVars == <<tin, tout>>

appVars == <<vocVars, histVars, truncVars>>

vars == <<docVars, appVars>>

\* ------------------------------------------------------------------ bounds
MaxMembers == 3
MaxParagraphs == 3
MaxBytes == 3

\* --------------------------------------------------------- string helpers
SeqsUpTo(S, n) == UNION {[1..k -> S] : k \in 0..n}

Range(s) == {s[i] : i \in 1..Len(s)}

Last(s) == s[Len(s)]

Front(s) == SubSeq(s, 1, Len(s) - 1)

Whitespace == {" ", "\n"}

RECURSIVE TrimStartWs(_)
TrimStartWs(s) ==
    IF s # <<>> /\ Head(s) \in Whitespace THEN TrimStartWs(Tail(s)) ELSE s

RECURSIVE TrimEndWs(_)
TrimEndWs(s) ==
    IF s # <<>> /\ Last(s) \in Whitespace THEN TrimEndWs(Front(s)) ELSE s

\* str::trim
Trim(s) == TrimEndWs(TrimStartWs(s))

\* Result<String, String>
Ok(t) == [ok |-> TRUE, v |-> t]

Err(m) == [ok |-> FALSE, v |-> m]

NoResult == [ok |-> FALSE, v |-> <<"pending">>]

\* ------------------------------------------------------------------ paths
Dot == "."

Slash == "/"

\* str::to_lowercase on the extension tokens in use
LowerTok(t) ==
    CASE t = "TXT" -> "txt"
      [] t = "Txt" -> "txt"
      [] t = "MD" -> "md"
      [] t = "DOCX" -> "docx"
      [] t = "PDF" -> "pdf"
      [] t = "PPTX" -> "pptx"
      [] t = "Pptx" -> "pptx"
      [] t = "PPT" -> "ppt"
      [] t = "Ppt" -> "ppt"
      [] t = "XYZ" -> "xyz"
      [] OTHER -> t

Lower(s) == [i \in 1..Len(s) |-> LowerTok(s[i])]

\* Path::file_name: the last component (paths here never end in a slash)
RECURSIVE FileNameOf(_)
FileNameOf(p) ==
    IF \E i \in 1..Len(p) : p[i] = Slash THEN FileNameOf(Tail(p)) ELSE p

LastDot(n) ==
    IF \E i \in 1..Len(n) : n[i] = Dot
    THEN CHOOSE i \in 1..Len(n) :
             n[i] = Dot /\ \A j \in (i + 1)..Len(n) : n[j] # Dot
    ELSE 0

\* Path::extension: what follows the last dot of the file name; None when
\* there is no dot or when the only dot is the first character.
PathExtension(p) ==
    LET n == FileNameOf(p)
        d == LastDot(n)
    IN IF d <= 1
       THEN [some |-> FALSE, v |-> <<>>]
       ELSE [some |-> TRUE, v |-> SubSeq(n, d + 1, Len(n))]

\* faulty variant: the extension is compared as written
ExtensionAsWritten(p) == PathExtension(p)

\* faulty variant: a missing extension is treated as the empty extension
ExtensionOrEmpty(p) == [some |-> TRUE, v |-> Lower(PathExtension(p).v)]

\* lines 56-60: path.extension().and_then(to_str).map(to_lowercase)
LowerExtension(p) ==
    LET e == PathExtension(p)
    IN [some |-> e.some, v |-> Lower(e.v)]

\* faulty variant: legacy .ppt handed to the PPTX extractor
RouteLegacyAsPptx(ext) ==
    CASE ext \in {<<"txt">>, <<"md">>} -> "plain"
      [] ext = <<"docx">> -> "docx"
      [] ext = <<"pdf">> -> "pdf"
      [] ext \in {<<"pptx">>, <<"ppt">>} -> "pptx"
      [] OTHER -> "unknown"

\* lines 62-71: the arms of match extension.as_str()
Route(ext) ==
    CASE ext \in {<<"txt">>, <<"md">>} -> "plain"
      [] ext = <<"docx">> -> "docx"
      [] ext = <<"pdf">> -> "pdf"
      [] ext = <<"pptx">> -> "pptx"
      [] ext = <<"ppt">> -> "legacy"
      [] OTHER -> "unknown"

NoExtensionMsg == <<"Could not determine file type">>

LegacyMsg ==
    <<"Legacy .ppt files are not supported directly. Please save the file as a .pptx or .pdf and try again.">>

\* faulty variant: the message does not carry the extension
UnsupportedMsgBare(ext) == <<"Unsupported file type: ">>

\* line 70: format!("Unsupported file type: {}", extension)
UnsupportedMsg(ext) == <<"Unsupported file type: ">> \o ext

NotFoundDetail == "No such file or directory (os error 2)"

InvalidUtf8Detail == "stream did not contain valid UTF-8"

\* ------------------------------------------------------------------ files
\* A file is what the extractors can observe of it: whether it exists, its
\* bytes, and what the DOCX, PDF and ZIP readers make of those bytes.
None == [ok |-> FALSE, v |-> <<>>]

Some(x) == [ok |-> TRUE, v |-> x]

\* bytes of a container file: "PK" and a byte that is not UTF-8
BinaryBytes == <<80, 75, 255>>

MissingFile ==
    [exists |-> FALSE, bytes |-> <<>>, docx |-> None, pdf |-> None, zip |-> None]

PlainFile(bs) ==
    [exists |-> TRUE, bytes |-> bs, docx |-> None, pdf |-> None, zip |-> None]

PdfFile(t) ==
    [exists |-> TRUE, bytes |-> BinaryBytes, docx |-> None, pdf |-> Some(t),
     zip |-> None]

PptxFile(a) ==
    [exists |-> TRUE, bytes |-> BinaryBytes, docx |-> None, pdf |-> None,
     zip |-> Some(a)]

\* ---------------------------------------------------------- UTF-8 decoding
IsCont(b) == b >= 128 /\ b <= 191

\* core::str::from_utf8 as used by fs::read_to_string (line 64)
RECURSIVE Utf8Valid(_)
Utf8Valid(bs) ==
    IF bs = <<>> THEN TRUE
    ELSE LET b == bs[1]
             n == Len(bs)
         IN CASE b <= 127 -> Utf8Valid(Tail(bs))
              [] b >= 194 /\ b <= 223 ->
                     /\ n >= 2
                     /\ IsCont(bs[2])
                     /\ Utf8Valid(SubSeq(bs, 3, n))
              [] b >= 224 /\ b <= 239 ->
                     /\ n >= 3
                     /\ IsCont(bs[2])
                     /\ IsCont(bs[3])
                     /\ (b = 224 => bs[2] >= 160)
                     /\ (b = 237 => bs[2] <= 159)
                     /\ Utf8Valid(SubSeq(bs, 4, n))
              [] b >= 240 /\ b <= 244 ->
                     /\ n >= 4
                     /\ IsCont(bs[2])
                     /\ IsCont(bs[3])
                     /\ IsCont(bs[4])
                     /\ (b = 240 => bs[2] >= 144)
                     /\ (b = 244 => bs[2] <= 143)
                     /\ Utf8Valid(SubSeq(bs, 5, n))
              [] OTHER -> FALSE

\* faulty variant: surrounding whitespace (line feed, space) is trimmed off the text
ReadToStringTrimmed(f) ==
    LET ws == {10, 32}
        lead == CHOOSE k \in 0..Len(f.bytes) :
                    /\ \A i \in 1..k : f.bytes[i] \in ws
                    /\ (k < Len(f.bytes) => f.bytes[k + 1] \notin ws)
        s == SubSeq(f.bytes, lead + 1, Len(f.bytes))
        keep == CHOOSE k \in 0..Len(s) :
                    /\ \A i \in (k + 1)..Len(s) : s[i] \in ws
                    /\ (k > 0 => s[k] \notin ws)
    IN IF ~f.exists THEN Err(<<"Failed to read file: ", NotFoundDetail>>)
       ELSE IF ~Utf8Valid(f.bytes)
            THEN Err(<<"Failed to read file: ", InvalidUtf8Detail>>)
            ELSE Ok(SubSeq(s, 1, keep))

\* line 64: fs::read_to_string(path).map_err(...)
ReadToString(f) ==
    IF ~f.exists THEN Err(<<"Failed to read file: ", NotFoundDetail>>)
    ELSE IF ~Utf8Valid(f.bytes)
         THEN Err(<<"Failed to read file: ", InvalidUtf8Detail>>)
         ELSE Ok(f.bytes)

\* ------------------------------------------------------------------- DOCX
\* docx.document.children: DocumentChild -> ParagraphChild -> RunChild
TextNode(t) == [k |-> "Text", text |-> t]

TabNode == [k |-> "Tab", text |-> <<>>]

BreakNode == [k |-> "Break", text |-> <<>>]

RunOf(cs) == [k |-> "Run", children |-> cs]

HyperlinkOf(cs) == [k |-> "Hyperlink", children |-> cs]

ParagraphOf(cs) == [k |-> "Paragraph", children |-> cs]

TableOf(cs) == [k |-> "Table", children |-> cs]

\* lines 85-89: the text nodes of one run, in order, no separator
RECURSIVE RunText(_)
RunText(rc) ==
    IF rc = <<>> THEN <<>>
    ELSE (IF Head(rc).k = "Text" THEN Head(rc).text ELSE <<>>)
             \o RunText(Tail(rc))

\* faulty variant: the runs inside a hyperlink are read too
RECURSIVE ParagraphTextFollowingLinks(_)
ParagraphTextFollowingLinks(pc_) ==
    IF pc_ = <<>> THEN <<>>
    ELSE (IF Head(pc_).k = "Run" THEN RunText(Head(pc_).children)
          ELSE IF Head(pc_).k = "Hyperlink"
               THEN ParagraphTextFollowingLinks(Head(pc_).children)
               ELSE <<>>)
             \o ParagraphTextFollowingLinks(Tail(pc_))

\* lines 83-91: the runs of one paragraph, in order
RECURSIVE ParagraphText(_)
ParagraphText(pc_) ==
    IF pc_ = <<>> THEN <<>>
    ELSE (IF Head(pc_).k = "Run" THEN RunText(Head(pc_).children) ELSE <<>>)
             \o ParagraphText(Tail(pc_))

\* faulty variant: an empty paragraph adds no line
DocxAppendSkipEmpty(t, child) ==
    IF child.k = "Paragraph" /\ ParagraphText(child.children) # <<>>
    THEN t \o ParagraphText(child.children) \o <<"\n">>
    ELSE t

\* lines 82-93: one iteration of `for child in docx.document.children`
DocxAppend(t, child) ==
    IF child.k = "Paragraph"
    THEN t \o ParagraphText(child.children) \o <<"\n">>
    ELSE t

DocxFile(d) ==
    [exists |-> TRUE, bytes |-> BinaryBytes, docx |-> Some(d), pdf |-> None,
     zip |-> Some(<<[name |-> <<"word/document.xml">>, openable |-> TRUE,
                     utf8 |-> TRUE, xml |-> <<>>]>>)]

\* ------------------------------------------------------------------- PPTX
SlidePrefix == "ppt/slides/slide"

XmlSuffix == ".xml"

\* faulty variant: the end of the name is not looked at
IsSlidePathByPrefix(name) ==
    /\ name # <<>>
    /\ Head(name) = SlidePrefix

\* line 126: name.starts_with("ppt/slides/slide") && name.ends_with(".xml")
IsSlidePath(name) ==
    /\ name # <<>>
    /\ Head(name) = SlidePrefix
    /\ Last(name) = XmlSuffix

\* str::trim_start_matches: strips every leading repetition of the pattern
RECURSIVE TrimStartMatches(_, _)
TrimStartMatches(s, pat) ==
    IF s # <<>> /\ Head(s) = pat THEN TrimStartMatches(Tail(s), pat) ELSE s

\* str::trim_end_matches: strips every trailing repetition of the pattern
RECURSIVE TrimEndMatches(_, _)
TrimEndMatches(s, pat) ==
    IF s # <<>> /\ Last(s) = pat THEN TrimEndMatches(Front(s), pat) ELSE s

Digits == {"0", "1", "2", "3", "4", "5", "6", "7", "8", "9"}

DigitVal(d) ==
    CASE d = "0" -> 0 [] d = "1" -> 1 [] d = "2" -> 2 [] d = "3" -> 3
      [] d = "4" -> 4 [] d = "5" -> 5 [] d = "6" -> 6 [] d = "7" -> 7
      [] d = "8" -> 8 [] d = "9" -> 9

\* Numbers of the range of u32 are kept as decimal digit strings without
\* leading zeros, so that the full range of the type is covered.
RECURSIVE StripZeros(_)
StripZeros(d) ==
    IF Len(d) > 1 /\ Head(d) = "0" THEN StripZeros(Tail(d)) ELSE d

RECURSIVE DigitsLexLeq(_, _)
DigitsLexLeq(a, b) ==
    IF a = <<>> THEN TRUE
    ELSE IF DigitVal(Head(a)) # DigitVal(Head(b))
         THEN DigitVal(Head(a)) < DigitVal(Head(b))
         ELSE DigitsLexLeq(Tail(a), Tail(b))

\* a <= b for digit strings without leading zeros
NumLeq(a, b) ==
    \/ Len(a) < Len(b)
    \/ Len(a) = Len(b) /\ DigitsLexLeq(a, b)

\* u32::MAX = 4294967295
U32MaxDigits == <<"4", "2", "9", "4", "9", "6", "7", "2", "9", "5">>

Zero == <<"0">>

\* str::parse::<u32>: an optional "+", then one or more digits, in range
ParseU32(s) ==
    LET d == IF s # <<>> /\ Head(s) = "+" THEN Tail(s) ELSE s
    IN IF d = <<>> \/ \E i \in 1..Len(d) : d[i] \notin Digits
       THEN [ok |-> FALSE, v |-> Zero]
       ELSE IF NumLeq(StripZeros(d), U32MaxDigits)
            THEN [ok |-> TRUE, v |-> StripZeros(d)]
            ELSE [ok |-> FALSE, v |-> Zero]

\* faulty variant: a name without a number is sorted last
extract_num_or_max(s) ==
    LET r == ParseU32(TrimEndMatches(TrimStartMatches(s, SlidePrefix), XmlSuffix))
    IN IF r.ok THEN r.v ELSE U32MaxDigits

\* lines 137-142: the closure extract_num
extract_num(s) ==
    LET r == ParseU32(TrimEndMatches(TrimStartMatches(s, SlidePrefix), XmlSuffix))
    IN IF r.ok THEN r.v ELSE Zero

\* faulty variant: names of the same number change places
ComesBeforeTiesReversed(files, j, i) ==
    \/ ~NumLeq(extract_num(files[i]), extract_num(files[j]))
    \/ j > i /\ NumLeq(extract_num(files[j]), extract_num(files[i]))

\* The sort is stable: files[j] comes before files[i] when its number is
\* smaller, or is the same and j is before i.
ComesBefore(files, j, i) ==
    \/ ~NumLeq(extract_num(files[i]), extract_num(files[j]))
    \/ j < i /\ NumLeq(extract_num(files[j]), extract_num(files[i]))

\* the place of files[i] in the sorted list
SortedPlace(files, i) ==
    1 + Cardinality({j \in 1..Len(files) : j # i /\ ComesBefore(files, j, i)})

\* faulty variant: the members are left in archive order
SortSlidesArchiveOrder(files) == files

\* lines 135-144: slide_files.sort_by(|a, b| extract_num(a).cmp(&extract_num(b)))
SortSlides(files) ==
    IF files = <<>> THEN <<>>
    ELSE [k \in 1..Len(files) |->
             files[CHOOSE i \in 1..Len(files) : SortedPlace(files, i) = k]]

\* ZipArchive::by_name: the member of that name (the last one, if repeated)
ByName(archive, name) ==
    IF \E i \in 1..Len(archive) : archive[i].name = name
    THEN Some(archive[CHOOSE i \in 1..Len(archive) :
                          /\ archive[i].name = name
                          /\ \A j \in (i + 1)..Len(archive) :
                                 archive[j].name # name])
    ELSE None

\* BytesText::unescape().unwrap_or_default(): an unknown entity makes the
\* whole text node unescape to the empty string
Unescape(raw) ==
    IF \E i \in 1..Len(raw) : raw[i] = "&bad;"
    THEN <<>>
    ELSE [i \in 1..Len(raw) |-> IF raw[i] = "&amp;" THEN "&" ELSE raw[i]]

\* faulty variant: every event appends what it holds
SlideTextAfterAnyEvent(st, item) ==
    IF Trim(item.raw) # <<>>
    THEN st \o Unescape(Trim(item.raw)) \o <<" ">>
    ELSE st

\* lines 158-167 on one piece of markup that is not an error: a text node
\* (trimmed by trim_text(true), dropped when nothing is left) appends its
\* unescaped content and a space, every other event appends nothing
SlideTextAfter(st, item) ==
    IF item.k = "Text" /\ Trim(item.raw) # <<>>
    THEN st \o Unescape(Trim(item.raw)) \o <<" ">>
    ELSE st

\* faulty variant: the slide text is tested without trimming
EmitCondUntrimmed(st) == st # <<>>

\* line 171: !slide_text.trim().is_empty()
EmitCond(st) == Trim(st) # <<>>

\* line 172: format!("--- SLIDE {} ---\n", slide_name)
Marker(name) == <<"--- SLIDE ">> \o name \o <<" ---", "\n">>

\* faulty variant: the marker line comes after the text of its slide
TextAfterSlideMarkerLast(t, name, st) ==
    IF EmitCond(st) THEN t \o st \o <<"\n">> \o Marker(name) ELSE t

\* lines 171-175
TextAfterSlide(t, name, st) ==
    IF EmitCond(st) THEN t \o Marker(name) \o st \o <<"\n">> ELSE t

NoTextMsg == <<"No text found in presentation slides.">>

\* faulty variant: the empty result is returned as a success
PptxResultUnchecked(t) == Ok(t)

\* lines 178-182
PptxResult(t) == IF t = <<>> THEN Err(NoTextMsg) ELSE Ok(t)

\* ----------------------------------------------------------------- inputs
PathOf(ext) == <<"notes", Dot, ext>>

ExtTokens ==
    {"txt", "TXT", "Txt", "md", "MD", "docx", "DOCX", "pdf", "PDF", "pptx",
     "PPTX", "Pptx", "ppt", "PPT", "Ppt", "xyz", "XYZ"}

Paths ==
    {PathOf(e) : e \in ExtTokens}
        \cup {<<"notes">>,
              <<Dot, "txt">>,
              <<"notes", Dot>>,
              <<"notes", Dot, "tar", Dot, "txt">>,
              <<"dir", Dot, "txt", Slash, "notes">>,
              <<"deck", Dot, "pptx", Dot, "ppt">>}

\* bytes of plain-text files: 'a', line feed, the two bytes of U+00E9, 0xFF
ByteSet == {97, 10, 195, 169, 255}

PlainFiles == {PlainFile(bs) : bs \in SeqsUpTo(ByteSet, MaxBytes)}

PHello == ParagraphOf(<<RunOf(<<TextNode(<<"Hello">>)>>)>>)

PEmpty == ParagraphOf(<<>>)

PWorld == ParagraphOf(<<RunOf(<<TextNode(<<"World">>)>>)>>)

\* a paragraph of two runs, the second with a line break and two text nodes
PRuns ==
    ParagraphOf(<<RunOf(<<TextNode(<<"Good">>)>>),
                  RunOf(<<TextNode(<<"bye">>), BreakNode, TextNode(<<"!">>)>>)>>)

\* a paragraph with a hyperlink (whose run is not a child of the paragraph)
PLink ==
    ParagraphOf(<<HyperlinkOf(<<RunOf(<<TextNode(<<"link">>)>>)>>),
                  RunOf(<<TabNode, TextNode(<<"see">>)>>)>>)

PTable == TableOf(<<ParagraphOf(<<RunOf(<<TextNode(<<"cell">>)>>)>>)>>)

DocChildren == {PHello, PEmpty, PWorld, PRuns, PLink, PTable}

DocxFiles == {DocxFile(d) : d \in SeqsUpTo(DocChildren, MaxParagraphs)}

PdfFiles == {PdfFile(<<>>), PdfFile(<<"page", "\n">>)}

SlideName(ord) == <<SlidePrefix>> \o ord \o <<XmlSuffix>>

S1 == SlideName(<<"1">>)

S2 == SlideName(<<"2">>)

S10 == SlideName(<<"1", "0">>)

S01 == SlideName(<<"0", "1">>)

SBad == SlideName(<<"x">>)

Layout == <<"ppt/slideLayouts/slideLayout", "1", XmlSuffix>>

StartTag == [k |-> "Start", raw |-> <<"<a:t>">>]

EndTag == [k |-> "End", raw |-> <<"</a:t>">>]

CommentNode == [k |-> "Comment", raw |-> <<"<!--c-->">>]

BadMarkup == [k |-> "Bad", raw |-> <<>>]

XmlText(raw) == [k |-> "Text", raw |-> raw]

Member(name, xml) ==
    [name |-> name, openable |-> TRUE, utf8 |-> TRUE, xml |-> xml]

\* a member by_index cannot open (encrypted, unsupported compression)
Locked(name) ==
    [name |-> name, openable |-> FALSE, utf8 |-> TRUE, xml |-> <<>>]

\* a member whose payload read_to_string cannot decode
Undecodable(name) ==
    [name |-> name, openable |-> TRUE, utf8 |-> FALSE, xml |-> <<>>]

TextXml(t) == <<StartTag, XmlText(<<" ", t, "\n">>), EndTag>>

BlankXml == <<StartTag, XmlText(<<" ", "\n">>), CommentNode, EndTag>>

Members ==
    {Member(S1, TextXml("A")),
     Member(S1, BlankXml),
     Member(S1, <<StartTag, XmlText(<<"A">>), BadMarkup, XmlText(<<"Z">>)>>),
     Undecodable(S1),
     Member(S2, TextXml("B")),
     Member(S2, BlankXml),
     Member(S2, <<StartTag, XmlText(<<"&bad;">>), EndTag>>),
     Locked(S2),
     Member(S10, TextXml("C")),
     Member(S10, <<StartTag, EndTag>>),
     Member(S10, <<StartTag, BadMarkup, XmlText(<<"C">>)>>),
     Member(S01, TextXml("D")),
     Member(S01, BlankXml),
     Member(SBad, TextXml("E")),
     Member(Layout, TextXml("L"))}

\* archives: members in physical order, no name twice
Archives ==
    {a \in SeqsUpTo(Members, MaxMembers) :
        \A i, j \in 1..Len(a) : i # j => a[i].name # a[j].name}

PptxFiles == {PptxFile(a) : a \in Archives}

CoreFiles ==
    {MissingFile,
     PlainFile(<<97>>),
     PlainFile(<<255>>),
     DocxFile(<<PHello>>),
     PdfFile(<<"page", "\n">>),
     PptxFile(<<Member(S1, TextXml("A"))>>),
     PptxFile(<<>>)}

\* every path with a file of every kind, and every file in reach of the
\* extractor that reads its kind
Scenarios ==
    (Paths \X CoreFiles)
        \cup ({PathOf("txt"), PathOf("md")} \X PlainFiles)
        \cup ({PathOf("docx")} \X DocxFiles)
        \cup ({PathOf("pdf")} \X PdfFiles)
        \cup ({PathOf("pptx")} \X PptxFiles)

\* ------------------------------------------- the other commands, at rest
\* two vocabulary commands can be under way at once
Procs == {1, 2}

\* vocabularies.json does not exist
NoUserFile == [exists |-> FALSE, categories |-> <<>>, vocabularies |-> <<>>]

NoOp == [cmd |-> "none"]

NoData == [categories |-> <<>>, vocabularies |-> <<>>]

NoEntry == [some |-> FALSE, v |-> <<>>]

HistoryIds == {<<"a">>, <<"./", "a">>, <<"b">>}

HistoryFiles == {<<"a", ".json">>, <<"b", ".json">>}

\* no vocabulary command, no history entry, no term extraction
StoresStarted ==
    /\ userFile = NoUserFile
    /\ vpc = [p \in Procs |-> "idle"]
    /\ vop = [p \in Procs |-> NoOp]
    /\ vloc = [p \in Procs |-> NoData]
    /\ vret = [p \in Procs |-> NoResult]
    /\ nextId = 0
    /\ vcalls = 0
    /\ hfiles = [f \in HistoryFiles |-> NoEntry]
    /\ hexpect = [i \in HistoryIds |-> NoEntry]
    /\ hret = [cmd |-> "none", id |-> <<>>, v |-> NoResult]

AppStarted ==
    /\ StoresStarted
    /\ tin = <<>>
    /\ tout = NoResult

\* ------------------------------------------------------------ the call
Init ==
    /\ \E sc \in Scenarios : path = sc[1] /\ file = sc[2]
    /\ pc = "start"
    /\ route = "undecided"
    /\ opened = FALSE
    /\ result = NoResult
    /\ text = <<>>
    /\ rest = <<>>
    /\ idx = 1
    /\ slide_files = <<>>
    /\ cur = <<>>
    /\ xmlRest = <<>>
    /\ slide_text = <<>>
    /\ calls = 1
    /\ prev = NoResult
    /\ saved = <<>>
    /\ AppStarted

Return(r) == result' = r /\ pc' = "done"

\* lines 54-72: extract_document_text up to the call of an extractor
Detect ==
    /\ pc = "start"
    /\ LET e == LowerExtension(path)
           r == Route(e.v)
       IN IF ~e.some
          THEN route' = "none" /\ Return(Err(NoExtensionMsg))
          ELSE /\ route' = r
               /\ CASE r = "legacy" -> Return(Err(LegacyMsg))
                    [] r = "unknown" -> Return(Err(UnsupportedMsg(e.v)))
                    [] OTHER -> pc' = r /\ UNCHANGED result
    /\ UNCHANGED <<appVars, calls, prev, saved, path, file, opened, text, rest, idx, slide_files, cur,
                   xmlRest, slide_text>>

\* lines 63-65: the "txt" | "md" arm
ReadPlain ==
    /\ pc = "plain"
    /\ opened' = TRUE
    /\ Return(ReadToString(file))
    /\ UNCHANGED <<appVars, calls, prev, saved, path, file, route, text, rest, idx, slide_files, cur,
                   xmlRest, slide_text>>

\* lines 77-80: extract_docx_text reads and parses the file
DocxOpen ==
    /\ pc = "docx"
    /\ opened' = TRUE
    /\ IF ~file.exists
       THEN Return(Err(<<"Failed to read file: ", NotFoundDetail>>))
                /\ UNCHANGED <<text, rest>>
       ELSE IF ~file.docx.ok
            THEN Return(Err(<<"Failed to parse docx: ", "zip error">>))
                     /\ UNCHANGED <<text, rest>>
            ELSE /\ rest' = file.docx.v
                 /\ text' = <<>>
                 /\ pc' = "docx_loop"
                 /\ UNCHANGED result
    /\ UNCHANGED <<appVars, calls, prev, saved, path, file, route, idx, slide_files, cur, xmlRest,
                   slide_text>>

\* lines 81-94: one document child
DocxChild ==
    /\ pc = "docx_loop"
    /\ rest # <<>>
    /\ text' = DocxAppend(text, Head(rest))
    /\ rest' = Tail(rest)
    /\ UNCHANGED <<appVars, calls, prev, saved, path, file, pc, route, opened, result, idx, slide_files,
                   cur, xmlRest, slide_text>>

\* line 96
DocxReturn ==
    /\ pc = "docx_loop"
    /\ rest = <<>>
    /\ Return(Ok(text))
    /\ UNCHANGED <<appVars, calls, prev, saved, path, file, route, opened, text, rest, idx, slide_files,
                   cur, xmlRest, slide_text>>

\* faulty variant: a PDF without text is reported like a presentation
\* without text
PdfExtractRequiringText ==
    /\ pc = "pdf"
    /\ opened' = TRUE
    /\ IF file.exists /\ file.pdf.ok
       THEN Return(PptxResult(file.pdf.v))
       ELSE Return(Err(<<"Failed to extract PDF text: ", "pdf error">>))
    /\ UNCHANGED <<appVars, calls, prev, saved, path, file, route, text, rest, idx,
                   slide_files, cur, xmlRest, slide_text>>

\* lines 99-101: extract_pdf_text
PdfExtract ==
    /\ pc = "pdf"
    /\ opened' = TRUE
    /\ IF file.exists /\ file.pdf.ok
       THEN Return(Ok(file.pdf.v))
       ELSE Return(Err(<<"Failed to extract PDF text: ", "pdf error">>))
    /\ UNCHANGED <<appVars, calls, prev, saved, path, file, route, text, rest, idx, slide_files, cur,
                   xmlRest, slide_text>>

\* faulty variant: the text buffer outlives the call instead of being
\* created empty by it
PptxOpenKeepingText ==
    /\ pc = "pptx"
    /\ opened' = TRUE
    /\ IF ~file.exists
       THEN Return(Err(<<"Failed to open file: ", NotFoundDetail>>))
       ELSE IF ~file.zip.ok
            THEN Return(Err(<<"Failed to read pptx as zip: ",
                              "invalid Zip archive">>))
            ELSE pc' = "scan" /\ UNCHANGED result
    /\ idx' = 1
    /\ slide_files' = <<>>
    /\ UNCHANGED <<appVars, calls, prev, saved, path, file, route, text, rest, cur,
                   xmlRest, slide_text>>

\* faulty variant: the file is opened for writing, which empties it
PptxOpenCreating ==
    /\ pc = "pptx"
    /\ opened' = TRUE
    /\ file' = PlainFile(<<>>)
    /\ Return(Err(<<"Failed to read pptx as zip: ", "invalid Zip archive">>))
    /\ text' = <<>>
    /\ idx' = 1
    /\ slide_files' = <<>>
    /\ UNCHANGED <<appVars, calls, prev, saved, path, route, rest, cur, xmlRest,
                   slide_text>>

\* faulty variant: a file that is no archive is taken for an archive without
\* members
PptxOpenLenient ==
    /\ pc = "pptx"
    /\ opened' = TRUE
    /\ IF ~file.exists
       THEN Return(Err(<<"Failed to open file: ", NotFoundDetail>>))
       ELSE pc' = "scan" /\ UNCHANGED result
    /\ text' = <<>>
    /\ idx' = 1
    /\ slide_files' = <<>>
    /\ UNCHANGED <<appVars, calls, prev, saved, path, file, route, rest, cur, xmlRest,
                   slide_text>>

\* lines 109-112: open the file, read it as a ZIP archive
PptxOpen ==
    /\ pc = "pptx"
    /\ opened' = TRUE
    /\ IF ~file.exists
       THEN Return(Err(<<"Failed to open file: ", NotFoundDetail>>))
       ELSE IF ~file.zip.ok
            THEN Return(Err(<<"Failed to read pptx as zip: ",
                              "invalid Zip archive">>))
            ELSE pc' = "scan" /\ UNCHANGED result
    /\ text' = <<>>
    /\ idx' = 1
    /\ slide_files' = <<>>
    /\ UNCHANGED <<appVars, calls, prev, saved, path, file, route, rest, cur, xmlRest, slide_text>>

\* lines 122-132: one index of the filter_map over 0..archive.len()
PptxScan ==
    /\ pc = "scan"
    /\ idx <= Len(file.zip.v)
    /\ LET m == file.zip.v[idx]
       IN slide_files' =
              IF m.openable /\ IsSlidePath(m.name)
              THEN Append(slide_files, m.name)
              ELSE slide_files
    /\ idx' = idx + 1
    /\ UNCHANGED <<appVars, calls, prev, saved, path, file, pc, route, opened, result, text, rest, cur,
                   xmlRest, slide_text>>

\* lines 135-144: the sort, once every index has been visited
PptxSort ==
    /\ pc = "scan"
    /\ idx > Len(file.zip.v)
    /\ slide_files' = SortSlides(slide_files)
    /\ pc' = "slides"
    /\ UNCHANGED <<appVars, calls, prev, saved, path, file, route, opened, result, text, rest, idx, cur,
                   xmlRest, slide_text>>

\* lines 146-155: the next slide is opened by name and read to a string
PptxReadSlide ==
    /\ pc = "slides"
    /\ slide_files # <<>>
    /\ cur' = Head(slide_files)
    /\ slide_files' = Tail(slide_files)
    /\ slide_text' = <<>>
    /\ LET m == ByName(file.zip.v, Head(slide_files))
       IN IF ~m.ok \/ ~m.v.openable
          THEN /\ Return(Err(<<"Failed to read slide ">> \o Head(slide_files)
                                 \o <<": ", "zip error">>))
               /\ UNCHANGED xmlRest
          ELSE IF ~m.v.utf8
               THEN /\ Return(Err(<<"Failed to read content of ">>
                                      \o Head(slide_files)
                                      \o <<": ", InvalidUtf8Detail>>))
                    /\ UNCHANGED xmlRest
               ELSE /\ xmlRest' = m.v.xml
                    /\ pc' = "events"
                    /\ UNCHANGED result
    /\ UNCHANGED <<appVars, calls, prev, saved, path, file, route, opened, text, rest, idx>>

\* lines 157-169: one event that is neither Eof nor an error
PptxEvent ==
    /\ pc = "events"
    /\ xmlRest # <<>>
    /\ Head(xmlRest).k # "Bad"
    /\ slide_text' = SlideTextAfter(slide_text, Head(xmlRest))
    /\ xmlRest' = Tail(xmlRest)
    /\ UNCHANGED <<appVars, calls, prev, saved, path, file, pc, route, opened, result, text, rest, idx,
                   slide_files, cur>>

\* faulty variant: a parse error in one slide fails the whole call
PptxBreakAborting ==
    /\ pc = "events"
    /\ IF xmlRest = <<>>
       THEN pc' = "emit" /\ UNCHANGED result
       ELSE Head(xmlRest).k = "Bad"
                /\ Return(Err(<<"Failed to parse slide ">> \o cur))
    /\ UNCHANGED <<appVars, calls, prev, saved, path, file, route, opened, text, rest,
                   idx, slide_files, cur, xmlRest, slide_text>>

\* faulty variant: only the end of the input ends the loop of a slide
PptxBreakOnEofOnly ==
    /\ pc = "events"
    /\ xmlRest = <<>>
    /\ pc' = "emit"
    /\ UNCHANGED <<appVars, calls, prev, saved, path, file, route, opened, result,
                   text, rest, idx, slide_files, cur, xmlRest, slide_text>>

\* lines 164-165: Eof or a parse error ends the loop of this slide
PptxBreak ==
    /\ pc = "events"
    /\ IF xmlRest = <<>> THEN TRUE ELSE Head(xmlRest).k = "Bad"
    /\ pc' = "emit"
    /\ UNCHANGED <<appVars, calls, prev, saved, path, file, route, opened, result, text, rest, idx,
                   slide_files, cur, xmlRest, slide_text>>

\* lines 171-176: marker and text of a slide that has text
PptxEmit ==
    /\ pc = "emit"
    /\ text' = TextAfterSlide(text, cur, slide_text)
    /\ pc' = "slides"
    /\ UNCHANGED <<appVars, calls, prev, saved, path, file, route, opened, result, rest, idx, slide_files,
                   cur, xmlRest, slide_text>>

\* lines 178-182
PptxFinish ==
    /\ pc = "slides"
    /\ slide_files = <<>>
    /\ Return(PptxResult(text))
    /\ UNCHANGED <<appVars, calls, prev, saved, path, file, route, opened, text, rest, idx, slide_files,
                   cur, xmlRest, slide_text>>

Next ==
    \/ Detect
    \/ ReadPlain
    \/ DocxOpen
    \/ DocxChild
    \/ DocxReturn
    \/ PdfExtract
    \/ PptxOpen
    \/ PptxScan
    \/ PptxSort
    \/ PptxReadSlide
    \/ PptxEvent
    \/ PptxBreak
    \/ PptxEmit
    \/ PptxFinish

Spec == Init /\ [][Next]_vars

\* ============================================================== properties
Done == pc = "done"

\* the member names of the marker lines of an output, in output order
RECURSIVE MarkerNames(_)
MarkerNames(t) ==
    IF t = <<>> THEN <<>>
    ELSE IF Head(t) = "--- SLIDE "
         THEN LET e == CHOOSE k \in 2..Len(t) :
                           t[k] = " ---" /\ \A j \in 2..(k - 1) : t[j] # " ---"
              IN <<SubSeq(t, 2, e - 1)>> \o MarkerNames(SubSeq(t, e + 1, Len(t)))
         ELSE MarkerNames(Tail(t))

CountOf(t, tok) == Cardinality({i \in 1..Len(t) : t[i] = tok})

\* the slide names of the inputs and the ordinals written in them
SlideNames == {S1, S2, S10, S01, SBad}

WrittenOrdinal(name) ==
    CASE name = S1 -> 1
      [] name = S2 -> 2
      [] name = S10 -> 10
      [] name = S01 -> 1

ParseableNames == {S1, S2, S10, S01}

ArchiveOpened == file.exists /\ file.zip.ok

\* the members of the archive that are slides
SlideMembers ==
    {m \in Range(file.zip.v) : m.name \in SlideNames}

\* the slide's markup has a text node with content before any malformed
\* markup
YieldsText(m) ==
    /\ m.openable
    /\ m.utf8
    /\ \E i \in 1..Len(m.xml) :
           /\ m.xml[i].k = "Text"
           /\ \A j \in 1..(i - 1) : m.xml[j].k # "Bad"
           /\ \E c \in Range(m.xml[i].raw) : c \notin Whitespace
           /\ "&bad;" \notin Range(m.xml[i].raw)

PptxSucceeded == Done /\ route = "pptx" /\ result.ok

AllOrdinalsParseable == \A m \in SlideMembers : m.name \in ParseableNames

\* C1 as claimed: with every ordinal parseable, the marker lines are in
\* strictly ascending order of the slide ordinal.
C1_MarkersStrictlyAscending ==
    (PptxSucceeded /\ AllOrdinalsParseable) =>
        LET ms == MarkerNames(result.v)
        IN \A i, j \in 1..Len(ms) :
               i < j => WrittenOrdinal(ms[i]) < WrittenOrdinal(ms[j])

\* C1 as amended: with every ordinal parseable, the marker lines are in
\* ascending order of the slide ordinal whatever the archive order, and in
\* strictly ascending order when no two slide members have the same ordinal
\* (slide1.xml and slide01.xml both have ordinal 1).
C1_MarkersAscending ==
    (PptxSucceeded /\ AllOrdinalsParseable) =>
        LET ms == MarkerNames(result.v)
        IN /\ \A i, j \in 1..Len(ms) :
                  i < j => WrittenOrdinal(ms[i]) <= WrittenOrdinal(ms[j])
           /\ (\A m, n \in SlideMembers :
                   m # n => WrittenOrdinal(m.name) # WrittenOrdinal(n.name))
                  => \A i, j \in 1..Len(ms) :
                         i < j => WrittenOrdinal(ms[i]) < WrittenOrdinal(ms[j])

\* slide10, slide2, slide1 in the archive come out as slide1, slide2, slide10
C1_Witness ==
    /\ PptxSucceeded
    /\ Len(file.zip.v) = 3
    /\ file.zip.v[1].name = S10
    /\ file.zip.v[2].name = S2
    /\ file.zip.v[3].name = S1
    /\ MarkerNames(result.v) = <<S1, S2, S10>>

\* C2: a PPTX extraction never succeeds with the empty string, and when the
\* archive opens and every slide in it is empty (or there is no slide) it
\* fails with the 'no text found' message.
C2_NeverEmptySuccess ==
    (Done /\ route = "pptx") =>
        /\ ~(result.ok /\ result.v = <<>>)
        /\ (ArchiveOpened
              /\ \A m \in SlideMembers : m.utf8 /\ ~YieldsText(m))
               => result = Err(NoTextMsg)

C2_Witness ==
    /\ Done
    /\ route = "pptx"
    /\ ArchiveOpened
    /\ Cardinality(SlideMembers) >= 2
    /\ \A m \in SlideMembers : m.openable /\ m.utf8 /\ ~YieldsText(m)
    /\ result = Err(NoTextMsg)

\* C3: in a successful PPTX extraction the marker lines are those of the
\* slides whose text is not empty after trimming, one each; the other slides
\* add no marker and no line of text.
C3_MarkerIffText ==
    PptxSucceeded =>
        LET ms == MarkerNames(result.v)
            yielding == {m \in SlideMembers : YieldsText(m)}
        IN /\ Range(ms) = {m.name : m \in yielding}
           /\ Len(ms) = Cardinality(yielding)
           /\ CountOf(result.v, "--- SLIDE ") = Cardinality(yielding)
           /\ CountOf(result.v, "\n") = 2 * Cardinality(yielding)

C3_Witness ==
    /\ PptxSucceeded
    /\ Cardinality(SlideMembers) = 3
    /\ \E m \in SlideMembers :
           /\ m.name = S2
           /\ m.openable
           /\ ~YieldsText(m)
           /\ \E i \in 1..Len(m.xml) : m.xml[i].k = "Text"
    /\ Len(MarkerNames(result.v)) = 2
    /\ S2 \notin Range(MarkerNames(result.v))

\* the spellings of an extension that differ in letter case only
Spellings(e) ==
    CASE e = "txt" -> {"txt", "TXT", "Txt"}
      [] e = "md" -> {"md", "MD"}
      [] e = "docx" -> {"docx", "DOCX"}
      [] e = "pdf" -> {"pdf", "PDF"}
      [] e = "pptx" -> {"pptx", "PPTX", "Pptx"}
      [] e = "ppt" -> {"ppt", "PPT", "Ppt"}

HasExtension(p, e) ==
    LET x == PathExtension(p)
    IN x.some /\ Len(x.v) = 1 /\ x.v[1] \in Spellings(e)

KnownExtensions == {"txt", "md", "docx", "pdf", "pptx", "ppt"}

\* C4: the extension, compared without regard to letter case, alone decides
\* which extractor runs or that the path is rejected.
C4_DispatchByExtension ==
    pc # "start" =>
        /\ route \in {"plain", "docx", "pdf", "pptx", "legacy", "unknown", "none"}
        /\ route = "plain" <=> (HasExtension(path, "txt") \/ HasExtension(path, "md"))
        /\ route = "docx" <=> HasExtension(path, "docx")
        /\ route = "pdf" <=> HasExtension(path, "pdf")
        /\ route = "pptx" <=> HasExtension(path, "pptx")
        /\ pc = "plain" => route = "plain"
        /\ pc \in {"docx", "docx_loop"} => route = "docx"
        /\ pc = "pdf" => route = "pdf"
        /\ pc \in {"pptx", "scan", "slides", "events", "emit"} => route = "pptx"
        /\ route \in {"legacy", "unknown", "none"} =>
               Done /\ ~result.ok /\ ~opened
        /\ opened => route \in {"plain", "docx", "pdf", "pptx"}

\* an upper-case .PPTX path naming a plain-text file goes to the PPTX reader
C4_Witness ==
    /\ path = PathOf("PPTX")
    /\ route = "pptx"
    /\ file = PlainFile(<<97>>)
    /\ Done
    /\ result.v[1] = "Failed to read pptx as zip: "

\* C5: a path with the extension ppt, in any letter case, fails with the
\* legacy-format message and the file is never touched.
C5_LegacyPptRejected ==
    (pc # "start" /\ HasExtension(path, "ppt")) =>
        Done /\ result = Err(LegacyMsg) /\ ~opened

C5_Witness ==
    /\ Done
    /\ path = PathOf("PPT")
    /\ ~file.exists
    /\ result = Err(LegacyMsg)

UnknownExtension(p) ==
    /\ PathExtension(p).some
    /\ \A e \in KnownExtensions : ~HasExtension(p, e)

\* C6 as claimed: the message for an unrecognized extension names the
\* extension as it is written in the path.
C6_NamesExtensionAsWritten ==
    (pc # "start" /\ UnknownExtension(path)) =>
        /\ Done
        /\ ~opened
        /\ result = Err(<<"Unsupported file type: ">> \o PathExtension(path).v)

\* C6 as amended: the message names the lower-cased extension (xyz for .XYZ),
\* and no file is read.
C6_NamesLowerCasedExtension ==
    (pc # "start" /\ UnknownExtension(path)) =>
        /\ Done
        /\ ~opened
        /\ result = Err(<<"Unsupported file type: ">>
                            \o Lower(PathExtension(path).v))

C6_Witness ==
    /\ Done
    /\ path = PathOf("XYZ")
    /\ file.exists
    /\ result = Err(<<"Unsupported file type: ", "xyz">>)

\* C7 as claimed: a path without extension fails with the message of an
\* unrecognized extension.
C7_NoExtensionIsUnsupported ==
    (pc # "start" /\ ~PathExtension(path).some) =>
        /\ Done
        /\ ~result.ok
        /\ Head(result.v) = "Unsupported file type: "

\* C7 as amended: a path without extension fails with the message "Could not
\* determine file type", and no file is read.
C7_NoExtensionUndetermined ==
    (pc # "start" /\ ~PathExtension(path).some) =>
        Done /\ result = Err(NoExtensionMsg) /\ ~opened

C7_Witness ==
    /\ Done
    /\ path = <<"notes">>
    /\ file.exists
    /\ result = Err(<<"Could not determine file type">>)

\* well-formed UTF-8 over the bytes of the inputs: 'a', line feed, U+00E9
RECURSIVE IsUtf8Text(_)
IsUtf8Text(bs) ==
    \/ bs = <<>>
    \/ /\ Len(bs) >= 1
       /\ bs[1] \in {97, 10}
       /\ IsUtf8Text(Tail(bs))
    \/ /\ Len(bs) >= 2
       /\ bs[1] = 195
       /\ bs[2] = 169
       /\ IsUtf8Text(Tail(Tail(bs)))

\* C8: a txt/md file of valid UTF-8 is returned byte for byte; a file that is
\* missing or not valid UTF-8 gives a failure.
C8_PlainTextVerbatim ==
    (Done /\ route = "plain") =>
        IF file.exists /\ IsUtf8Text(file.bytes)
        THEN result = Ok(file.bytes)
        ELSE ~result.ok /\ Head(result.v) = "Failed to read file: "

C8_Witness ==
    /\ Done
    /\ route = "plain"
    /\ file.bytes = <<10, 195, 169>>
    /\ result = Ok(<<10, 195, 169>>)

\* the lines of a text: the pieces that end in a line feed
RECURSIVE LinesOf(_, _)
LinesOf(t, line) ==
    IF t = <<>> THEN <<>>
    ELSE IF Head(t) = "\n"
         THEN <<line>> \o LinesOf(Tail(t), <<>>)
         ELSE LinesOf(Tail(t), Append(line, Head(t)))

\* the text of the runs of the paragraphs of the inputs
WrittenText(p) ==
    CASE p = PHello -> <<"Hello">>
      [] p = PEmpty -> <<>>
      [] p = PWorld -> <<"World">>
      [] p = PRuns -> <<"Good", "bye", "!">>
      [] p = PLink -> <<"see">>

\* C9: for a body of paragraphs the output has one line per paragraph, in
\* document order, each the text of the paragraph's runs without separator
\* and ended by one line feed; ["Hello", "", "World"] gives "Hello\n\nWorld\n".
C9_DocxOneLinePerParagraph ==
    (Done /\ route = "docx" /\ file.exists /\ file.docx.ok
          /\ \A i \in 1..Len(file.docx.v) : file.docx.v[i].k = "Paragraph") =>
        LET doc == file.docx.v
            lines == LinesOf(result.v, <<>>)
        IN /\ result.ok
           /\ Len(lines) = Len(doc)
           /\ \A i \in 1..Len(doc) : lines[i] = WrittenText(doc[i])
           /\ CountOf(result.v, "\n") = Len(doc)
           /\ result.v # <<>> => Last(result.v) = "\n"
           /\ doc = <<PHello, PEmpty, PWorld>>
                  => result.v = <<"Hello", "\n", "\n", "World", "\n">>

C9_Witness ==
    /\ Done
    /\ route = "docx"
    /\ file.docx.v = <<PHello, PEmpty, PWorld>>
    /\ result = Ok(<<"Hello", "\n", "\n", "World", "\n">>)

\* C10 as claimed: a slide whose payload is malformed or cannot be read or
\* decoded never aborts the extraction; the call succeeds, with the marker of
\* every slide that has text, exactly when some slide has text.
C10_SlideFailureNeverAborts ==
    (Done /\ route = "pptx" /\ ArchiveOpened) =>
        LET yielding == {m \in SlideMembers : YieldsText(m)}
        IN /\ result.ok <=> yielding # {}
           /\ result.ok =>
                  Range(MarkerNames(result.v)) = {m.name : m \in yielding}

\* ------------------------------------------------------------ C11
NonWs(t) == SelectSeq(t, LAMBDA c : c \notin Whitespace)

HasBadMarkup(m) == \E i \in 1..Len(m.xml) : m.xml[i].k = "Bad"

FirstBad(m) ==
    CHOOSE i \in 1..Len(m.xml) :
        m.xml[i].k = "Bad" /\ \A j \in 1..(i - 1) : m.xml[j].k # "Bad"

RECURSIVE RawTextOf(_)
RawTextOf(items) ==
    IF items = <<>> THEN <<>>
    ELSE (IF Head(items).k = "Text" THEN Head(items).raw ELSE <<>>)
             \o RawTextOf(Tail(items))

\* the slides of the archive whose markup is malformed somewhere
BrokenSlides ==
    {m \in SlideMembers : m.openable /\ m.utf8 /\ HasBadMarkup(m)}

CurrentMember ==
    CHOOSE m \in Range(file.zip.v) : m.name = cur

\* C11: a parse error in the markup of a slide ends the parsing of that slide
\* only: the text read before the error is kept and gets its marker when it
\* is not empty, nothing after the error is read, the slides that follow are
\* extracted, and the call never fails because of the error.
C11_ParseErrorEndsSlideOnly ==
    /\ (pc = "emit" /\ xmlRest # <<>>) =>
           /\ Head(xmlRest).k = "Bad"
           /\ result = NoResult
           /\ NonWs(slide_text) =
                  NonWs(RawTextOf(SubSeq(CurrentMember.xml, 1,
                                         FirstBad(CurrentMember) - 1)))
    /\ (PptxSucceeded /\ BrokenSlides # {}) =>
           /\ Range(MarkerNames(result.v)) =
                  {m.name : m \in {s \in SlideMembers : YieldsText(s)}}
           /\ \A b \in BrokenSlides :
                  \A c \in Range(NonWs(RawTextOf(
                               SubSeq(b.xml, FirstBad(b) + 1, Len(b.xml))))) :
                      c \notin Range(result.v)
    /\ (Done /\ route = "pptx" /\ ArchiveOpened /\ ~result.ok
             /\ BrokenSlides # {}) =>
           \/ /\ result = Err(NoTextMsg)
              /\ \A m \in SlideMembers : ~YieldsText(m)
           \/ /\ result.v[1] = "Failed to read content of "
              /\ \E m \in SlideMembers : m.openable /\ ~m.utf8

\* slide1 is malformed after its text A, slide2 follows with its text
C11_Witness ==
    /\ PptxSucceeded
    /\ \E b \in BrokenSlides : b.name = S1 /\ YieldsText(b)
    /\ MarkerNames(result.v) = <<S1, S2>>
    /\ "A" \in Range(result.v)
    /\ "Z" \notin Range(result.v)

\* ------------------------------------------------- two calls, one file
\* line 54: the command is invoked again on the same path.  Nothing of the
\* first call is cleared here: whatever the second call reads of its locals
\* it has to have written itself.
CallAgain ==
    /\ pc = "done"
    /\ calls = 1
    /\ calls' = 2
    /\ prev' = result
    /\ pc' = "start"
    /\ route' = "undecided"
    /\ opened' = FALSE
    /\ result' = NoResult
    /\ UNCHANGED <<appVars, saved, path, file, text, rest, idx, slide_files, cur,
                   xmlRest, slide_text>>

NextTwice ==
    \/ Next
    \/ CallAgain

SpecTwice == Init /\ [][NextTwice]_vars

\* C12: the second of two calls on the same unmodified file returns what the
\* first returned, the same text or the same failure.
C12_SecondCallSameResult ==
    (calls = 2 /\ Done) => result = prev

C12_Witness ==
    /\ calls = 2
    /\ Done
    /\ route = "pptx"
    /\ result.ok
    /\ Len(MarkerNames(result.v)) = 2
    /\ result = prev

\* C13: no step of a call, in any format, successful or failing, changes the
\* file or the path, and what the first call leaves behind does not show in
\* the second.
C13_ReadOnlyNoTrace ==
    /\ [][file' = file /\ path' = path]_vars
    /\ []((calls = 2 /\ Done) => result = prev)

C13_Witness ==
    /\ calls = 2
    /\ Done
    /\ route = "docx"
    /\ file.exists
    /\ ~result.ok
    /\ result = prev

\* ------------------------------------------------------ concurrent calls
\* The commands are async and run on the threads of the runtime, so that two
\* calls can be under way at once.  One call runs on the variables of the
\* module; the locals of the other are kept in `saved`, and a switch
\* exchanges the two at any step.
Locals ==
    [id |-> calls, path |-> path, file |-> file, pc |-> pc, route |-> route,
     opened |-> opened, result |-> result, text |-> text, rest |-> rest,
     idx |-> idx, slide_files |-> slide_files, cur |-> cur,
     xmlRest |-> xmlRest, slide_text |-> slide_text]

\* the locals of a call that has just been invoked
Invoked(i, p, f) ==
    [id |-> i, path |-> p, file |-> f, pc |-> "start", route |-> "undecided",
     opened |-> FALSE, result |-> NoResult, text |-> <<>>, rest |-> <<>>,
     idx |-> 1, slide_files |-> <<>>, cur |-> <<>>, xmlRest |-> <<>>,
     slide_text |-> <<>>]

\* faulty variant: the text buffer is one buffer for all calls
ResumeSharingText(s) ==
    /\ calls' = s.id
    /\ path' = s.path
    /\ file' = s.file
    /\ pc' = s.pc
    /\ route' = s.route
    /\ opened' = s.opened
    /\ result' = s.result
    /\ text' = text
    /\ rest' = s.rest
    /\ idx' = s.idx
    /\ slide_files' = s.slide_files
    /\ cur' = s.cur
    /\ xmlRest' = s.xmlRest
    /\ slide_text' = s.slide_text

\* every local of a call belongs to that call alone
Resume(s) ==
    /\ calls' = s.id
    /\ path' = s.path
    /\ file' = s.file
    /\ pc' = s.pc
    /\ route' = s.route
    /\ opened' = s.opened
    /\ result' = s.result
    /\ text' = s.text
    /\ rest' = s.rest
    /\ idx' = s.idx
    /\ slide_files' = s.slide_files
    /\ cur' = s.cur
    /\ xmlRest' = s.xmlRest
    /\ slide_text' = s.slide_text

\* the calls that are made together
ConcScenarios ==
    {<<PathOf("pptx"),
       PptxFile(<<Member(S2, TextXml("B")),
                  Member(S1, <<StartTag, XmlText(<<"A">>), BadMarkup>>)>>)>>,
     <<PathOf("PPTX"),
       PptxFile(<<Member(S10, TextXml("C")), Member(S2, BlankXml)>>)>>,
     <<PathOf("docx"), DocxFile(<<PHello, PEmpty, PWorld>>)>>,
     <<PathOf("txt"), PlainFile(<<97, 10>>)>>,
     <<PathOf("pdf"), PdfFile(<<"page", "\n">>)>>,
     <<PathOf("ppt"), MissingFile>>}

\* a call that has just been invoked, no other call under way
Started ==
    /\ pc = "start"
    /\ route = "undecided"
    /\ opened = FALSE
    /\ result = NoResult
    /\ text = <<>>
    /\ rest = <<>>
    /\ idx = 1
    /\ slide_files = <<>>
    /\ cur = <<>>
    /\ xmlRest = <<>>
    /\ slide_text = <<>>
    /\ calls = 1
    /\ prev = NoResult
    /\ saved = <<>>
    /\ AppStarted

InitConc ==
    /\ \E sc \in ConcScenarios : path = sc[1] /\ file = sc[2]
    /\ Started

\* The first call has run alone and its result is kept in prev.  It is now
\* made again (call 2) while another call (call 3) is made on some file.
ConcStart ==
    /\ pc = "done"
    /\ calls = 1
    /\ saved = <<>>
    /\ calls' = 2
    /\ prev' = result
    /\ pc' = "start"
    /\ route' = "undecided"
    /\ opened' = FALSE
    /\ result' = NoResult
    /\ \E sc \in ConcScenarios : saved' = Invoked(3, sc[1], sc[2])
    /\ UNCHANGED <<appVars, path, file, text, rest, idx, slide_files, cur, xmlRest,
                   slide_text>>

\* the other call gets to run
Switch ==
    /\ saved # <<>>
    /\ saved' = Locals
    /\ Resume(saved)
    /\ UNCHANGED <<appVars, prev>>

NextConc ==
    \/ Next
    \/ ConcStart
    \/ Switch

SpecConc == InitConc /\ [][NextConc]_vars

\* C14: a call that runs interleaved in any way with a call on another file
\* returns what it returned when it ran alone.
C14_ResultAsWhenAlone ==
    /\ (calls = 2 /\ Done) => result = prev
    /\ (calls = 3 /\ saved.pc = "done") => saved.result = prev
    /\ (calls = 3 /\ Done /\ saved.path = path /\ saved.file = file
            /\ saved.pc = "done") => result = saved.result

\* call 2 has returned its result while the other call is in the middle of a
\* slide
C14_Witness ==
    /\ calls = 2
    /\ Done
    /\ route = "pptx"
    /\ result.ok
    /\ result = prev
    /\ saved.pc = "events"
    /\ saved.file # file
    /\ saved.slide_text # <<>>

\* ------------------------------------------------------------ termination
\* The call is sequential code without a wait: a step that can be taken is
\* taken.
LiveMembers ==
    {Member(S1, <<StartTag, XmlText(<<"A">>), BadMarkup, XmlText(<<"Z">>)>>),
     Member(S2, TextXml("B")),
     Member(S10, <<StartTag, BadMarkup, XmlText(<<"C">>)>>),
     Member(Layout, TextXml("L"))}

LiveArchives ==
    {a \in SeqsUpTo(LiveMembers, MaxMembers) :
        \A i, j \in 1..Len(a) : i # j => a[i].name # a[j].name}

LiveScenarios ==
    ({PathOf("pptx")} \X {PptxFile(a) : a \in LiveArchives})
        \cup {<<PathOf("pptx"), MissingFile>>, <<PathOf("pptx"), PlainFile(<<97>>)>>}
        \cup ConcScenarios

InitLive ==
    /\ \E sc \in LiveScenarios : path = sc[1] /\ file = sc[2]
    /\ Started

SpecLive == InitLive /\ [][Next]_vars /\ WF_vars(Next)

\* the slides that are still to be processed are all different
NoSlideTwice ==
    \A i, j \in 1..Len(slide_files) :
        i # j => slide_files[i] # slide_files[j]

\* C15: a PPTX extraction ends with a result.  The enumeration goes through
\* the indices of the archive one by one, every slide of the list is taken
\* from the list once, and the event loop of a slide consumes one event per
\* iteration and ends at the end of the input or at the first parse error.
C15_PptxTerminates ==
    /\ (pc = "pptx") ~> (Done /\ result # NoResult)
    /\ [][/\ (pc = "scan") => idx <= Len(file.zip.v) + 1
          /\ (pc \in {"slides", "events", "emit"}) => NoSlideTwice
          /\ (pc = "scan" /\ pc' = "scan") => idx' = idx + 1
          /\ (pc = "slides" /\ slide_files # <<>>)
                => /\ cur' = Head(slide_files)
                   /\ slide_files' = Tail(slide_files)
          /\ (pc \in {"events", "emit"}) => slide_files' = slide_files
          /\ (pc = "events" /\ pc' = "events")
                => /\ xmlRest # <<>>
                   /\ xmlRest' = Tail(xmlRest)
          /\ (pc = "events" /\ pc' # "events")
                => /\ pc' = "emit"
                   /\ IF xmlRest = <<>> THEN TRUE
                      ELSE Head(xmlRest).k = "Bad"]_vars

\* an extraction of three slides, one of them with malformed markup, has
\* ended
C15_Witness ==
    /\ Done
    /\ route = "pptx"
    /\ ArchiveOpened
    /\ result # NoResult
    /\ idx = Len(file.zip.v) + 1
    /\ Cardinality(SlideMembers) >= 3
    /\ BrokenSlides # {}
    /\ slide_files = <<>>

\* ------------------------------------------------------ container errors
OpenFailure == <<"Failed to open file: ", NotFoundDetail>>

ZipFailure == <<"Failed to read pptx as zip: ", "invalid Zip archive">>

\* C16: when the pptx file cannot be opened, or is not a ZIP archive, the
\* call fails with the message of that step followed by the detail of the
\* underlying error; no text has been extracted and the failure is not the
\* "no text found" one.
C16_ContainerFailure ==
    (Done /\ route = "pptx") =>
        /\ ~file.exists => result = Err(OpenFailure)
        /\ (file.exists /\ ~file.zip.ok) => result = Err(ZipFailure)
        /\ ~ArchiveOpened =>
               /\ ~result.ok
               /\ result # Err(NoTextMsg)
               /\ text = <<>>
               /\ slide_files = <<>>
        /\ (~result.ok /\ result.v \in {OpenFailure, ZipFailure})
               => ~ArchiveOpened

\* a file with the bytes of a text file and the pptx extension has been
\* rejected
C16_Witness ==
    /\ Done
    /\ route = "pptx"
    /\ file.exists
    /\ ~file.zip.ok
    /\ result = Err(ZipFailure)

\* -------------------------------------------------- files without text
\* every child of the document is a paragraph without text
DocxWithoutText ==
    /\ file.exists
    /\ file.docx.ok
    /\ \A i \in 1..Len(file.docx.v) :
           /\ file.docx.v[i].k = "Paragraph"
           /\ ParagraphText(file.docx.v[i].children) = <<>>

PlainWithoutText ==
    /\ file.exists
    /\ Utf8Valid(file.bytes)
    /\ \A i \in 1..Len(file.bytes) : file.bytes[i] = 10

\* nothing but line feeds
Blank(t, lf) == \A i \in 1..Len(t) : t[i] = lf

\* C17: only the PPTX extractor gives the "no text found" failure.  A PDF
\* that is parsed gives its text as a success even when the text is empty, a
\* DOCX or plain-text file without text gives a success with blank output,
\* and a PDF that is not parsed gives a failure.
C17_NoTextOnlyForPptx ==
    Done =>
        /\ result = Err(NoTextMsg) => route = "pptx"
        /\ (route = "pdf" /\ file.exists /\ file.pdf.ok)
               => result = Ok(file.pdf.v)
        /\ (route = "pdf" /\ ~(file.exists /\ file.pdf.ok))
               => /\ ~result.ok
                  /\ Head(result.v) = "Failed to extract PDF text: "
        /\ (route = "docx" /\ DocxWithoutText)
               => /\ result.ok
                  /\ Blank(result.v, "\n")
                  /\ Len(result.v) = Len(file.docx.v)
        /\ (route = "plain" /\ PlainWithoutText)
               => /\ result = Ok(file.bytes)
                  /\ Blank(result.v, 10)

\* a PDF without a text layer has given the empty text as a success
C17_Witness ==
    /\ Done
    /\ route = "pdf"
    /\ file.pdf = Some(<<>>)
    /\ result = Ok(<<>>)

\* ------------------------------------------------------ names of members
\* ppt/slideMasters/slideMaster1.xml
Master == <<"ppt/slideMasters/slideMaster", "1", XmlSuffix>>

\* ppt/slides/slide1.xml.rels: the prefix of a slide, not the suffix
Rels == <<SlidePrefix, "1", XmlSuffix, ".rels">>

\* backup/ppt/slides/slide1.xml: the suffix of a slide, not the prefix
Nested == <<"backup/", SlidePrefix, "1", XmlSuffix>>

\* ppt/slides/slide7.xml.xml
S7XmlXml == <<SlidePrefix, "7", XmlSuffix, XmlSuffix>>

\* ppt/slides/slideppt/slides/slide7.xml
SSlide7 == <<SlidePrefix, SlidePrefix, "7", XmlSuffix>>

\* ppt/slides/slide.xml
SEmpty == SlideName(<<>>)

\* ppt/slides/slide4294967296.xml
SBig == SlideName(<<"4", "2", "9", "4", "9", "6", "7", "2", "9", "6">>)

NameMembers ==
    {Member(S2, TextXml("B")),
     Locked(S1),
     Member(S7XmlXml, TextXml("X")),
     Member(SSlide7, TextXml("P")),
     Member(SEmpty, TextXml("E")),
     Member(SBig, TextXml("G")),
     Member(SBad, TextXml("N")),
     Member(Master, TextXml("L")),
     Member(Rels, TextXml("R")),
     Member(Nested, TextXml("M")),
     Member(S10, <<StartTag, XmlText(<<" ", "C", "&amp;", "D", " ">>), EndTag,
                   CommentNode, XmlText(<<"\n">>), StartTag,
                   XmlText(<<"&bad;">>), XmlText(<<"F">>), EndTag, BadMarkup,
                   XmlText(<<"Z">>)>>)}

NameArchives ==
    {a \in SeqsUpTo(NameMembers, MaxMembers) :
        \A i, j \in 1..Len(a) : i # j => a[i].name # a[j].name}

NameScenarios ==
    ({PathOf("pptx")} \X {PptxFile(a) : a \in NameArchives})
        \cup ConcScenarios

InitNames ==
    /\ \E sc \in NameScenarios : path = sc[1] /\ file = sc[2]
    /\ Started

SpecNames == InitNames /\ [][Next]_vars

\* the name starts with ppt/slides/slide and ends with .xml
MatchesPattern(name) ==
    /\ Len(name) >= 2
    /\ name[1] = "ppt/slides/slide"
    /\ name[Len(name)] = ".xml"

MatchingMembers == {m \in Range(file.zip.v) : MatchesPattern(m.name)}

NamesOf(ms) == {m.name : m \in ms}

\* the text of the member is part of the output
TextIn(m, out) ==
    \E i \in 1..Len(m.xml) :
        m.xml[i].k = "Text" /\ Range(Trim(m.xml[i].raw)) \subseteq Range(out)

\* the enumeration is over and no slide has been read yet
SlidesListed == pc = "slides" /\ cur = <<>> /\ route = "pptx"

PptxEnded == Done /\ route = "pptx" /\ ArchiveOpened

\* every member that is not a slide leaves no marker and no text
OthersContributeNothing ==
    PptxEnded =>
        \A m \in Range(file.zip.v) \ MatchingMembers :
            /\ m.name \notin Range(MarkerNames(IF result.ok THEN result.v
                                                ELSE <<>>))
            /\ result.ok => ~TextIn(m, result.v)

\* C18 as claimed: the members that are processed are exactly those whose
\* name starts with ppt/slides/slide and ends with .xml.
C18_ExactlyMatchingMembers ==
    /\ SlidesListed =>
           /\ Range(slide_files) = NamesOf(MatchingMembers)
           /\ Len(slide_files) = Cardinality(MatchingMembers)
    /\ OthersContributeNothing

\* C18: the members that are processed are exactly those that can be opened
\* and whose name starts with ppt/slides/slide and ends with .xml, each one
\* once; a member of such a name that cannot be opened is left out without
\* an error, and every other member leaves no marker and no text.
C18_ExactlyOpenableMatchingMembers ==
    /\ SlidesListed =>
           /\ Range(slide_files)
                  = NamesOf({m \in MatchingMembers : m.openable})
           /\ Len(slide_files)
                  = Cardinality({m \in MatchingMembers : m.openable})
    /\ OthersContributeNothing
    /\ (PptxEnded /\ result.ok) =>
           \A m \in MatchingMembers :
               (m.openable /\ YieldsText(m)) <=>
                   m.name \in Range(MarkerNames(result.v))

\* a slide has been extracted from an archive that also holds a master with
\* text and a slide that cannot be opened
C18_Witness ==
    /\ PptxEnded
    /\ result.ok
    /\ Len(file.zip.v) = 3
    /\ \E m \in Range(file.zip.v) : m.name = Master
    /\ \E m \in Range(file.zip.v) : m.name = S1 /\ ~m.openable
    /\ MarkerNames(result.v) = <<S2>>

\* ----------------------------------------------- names without a number
\* the text between prefix and suffix is empty, is no number, is a number
\* above u32::MAX
UnparseableNames == {SEmpty, SBad, SBig}

\* the place of a name in a list of names, 0 when it is not in the list
PlaceIn(names, n) ==
    IF \E i \in 1..Len(names) : names[i] = n
    THEN CHOOSE i \in 1..Len(names) : names[i] = n
    ELSE 0

UnparseableSlides ==
    {m \in Range(file.zip.v) : m.openable /\ m.name \in UnparseableNames}

\* C19: a slide whose name holds no number that fits a u32 is sorted with
\* the number 0.  The call does not fail because of it, the slide is
\* extracted with its marker and text, and it comes before every slide with
\* a positive number.
C19_UnparseableOrdinalIsZero ==
    /\ \A m \in UnparseableSlides : extract_num(m.name) = Zero
    /\ (SlidesListed /\ UnparseableSlides # {}) =>
           \A m \in UnparseableSlides : m.name \in Range(slide_files)
    /\ (PptxEnded /\ UnparseableSlides # {}) =>
           /\ result.ok
           /\ LET ms == MarkerNames(result.v)
              IN \A m \in UnparseableSlides :
                     /\ PlaceIn(ms, m.name) > 0
                     /\ TextIn(m, result.v)
                     /\ \A j \in 1..Len(ms) :
                            (ms[j] = S2 \/ extract_num(ms[j]) # Zero)
                                => PlaceIn(ms, m.name) < j

\* slide2 is first in the archive and last in the output, after the slides
\* with a number that is too large and with no number, which keep the order
\* they have in the archive
C19_Witness ==
    /\ PptxEnded
    /\ result.ok
    /\ Len(file.zip.v) = 3
    /\ file.zip.v[1].name = S2
    /\ MarkerNames(result.v) = <<SBig, SEmpty, S2>>

\* ------------------------------------------------- the number of a name
\* the text between the leading prefix and the trailing suffix of the name
Between(name) == SubSeq(name, 2, Len(name) - 1)

IsPlainNumber(t) ==
    /\ t # <<>>
    /\ \A i \in 1..Len(t) : t[i] \in Digits
    /\ NumLeq(StripZeros(t), U32MaxDigits)

\* the number the text between prefix and suffix writes, else 0
WrittenBetween(name) ==
    IF IsPlainNumber(Between(name)) THEN StripZeros(Between(name)) ELSE Zero

AscendingByWritten(names) ==
    \A i, j \in 1..Len(names) :
        i < j => NumLeq(WrittenBetween(names[i]), WrittenBetween(names[j]))

\* C20 as claimed: the slides are sorted by the number written by exactly
\* the text between the leading prefix and the trailing suffix of the name,
\* and by 0 when that text is not a plain number.
C20_OrdinalIsTextBetween ==
    /\ SlidesListed =>
           /\ \A i \in 1..Len(slide_files) :
                  extract_num(slide_files[i]) = WrittenBetween(slide_files[i])
           /\ AscendingByWritten(slide_files)
    /\ (PptxEnded /\ result.ok) => AscendingByWritten(MarkerNames(result.v))

\* ------------------------------------------------- the text of a slide
\* the markup the reader gets through: all of it, or what precedes the first
\* piece that is malformed
BeforeError(xml) ==
    IF \E i \in 1..Len(xml) : xml[i].k = "Bad"
    THEN SubSeq(xml, 1, (CHOOSE i \in 1..Len(xml) :
                             /\ xml[i].k = "Bad"
                             /\ \A j \in 1..(i - 1) : xml[j].k # "Bad") - 1)
    ELSE xml

\* the text-node events of a piece of markup: the text nodes, trimmed, that
\* are not empty
IsTextEvent(item) == item.k = "Text" /\ Trim(item.raw) # <<>>

\* what the text-node events write, in stream order
RECURSIVE TextOfEvents(_)
TextOfEvents(xml) ==
    IF xml = <<>> THEN <<>>
    ELSE (IF IsTextEvent(Head(xml))
          THEN Unescape(Trim(Head(xml).raw)) \o <<" ">>
          ELSE <<>>)
             \o TextOfEvents(Tail(xml))

MarkupTokens == {"<a:t>", "</a:t>", "<!--c-->"}

\* C21: when the events of a slide have been read, the slide text is what
\* its text-node events write in stream order, each followed by one space;
\* the other events add nothing and the text holds no markup.
C21_SlideTextFromTextEvents ==
    /\ (pc = "emit" /\ route = "pptx") =>
           /\ slide_text = TextOfEvents(BeforeError(CurrentMember.xml))
           /\ Range(slide_text) \cap MarkupTokens = {}
    /\ (pc = "events" /\ route = "pptx") =>
           Range(slide_text) \cap MarkupTokens = {}
    /\ (PptxEnded /\ result.ok) => Range(result.v) \cap MarkupTokens = {}

\* the text of a slide with tags, a comment, an entity, a text node of
\* white space and a text node whose entity is unknown
C21_Witness ==
    /\ pc = "emit"
    /\ cur = S10
    /\ slide_text = <<"C", "&", "D", " ", " ", "F", " ">>

\* ------------------------------------------------------ the whole output
\* the names of the members that are listed as slides, in archive order
RECURSIVE ListedNames(_)
ListedNames(archive) ==
    IF archive = <<>> THEN <<>>
    ELSE (IF Head(archive).openable /\ MatchesPattern(Head(archive).name)
          THEN <<Head(archive).name>>
          ELSE <<>>)
             \o ListedNames(Tail(archive))

MemberNamed(n) == CHOOSE m \in Range(file.zip.v) : m.name = n

\* marker line, text and newline of every slide of the list whose text is
\* not empty after trimming
RECURSIVE OutputOf(_)
OutputOf(names) ==
    IF names = <<>> THEN <<>>
    ELSE LET st == TextOfEvents(BeforeError(MemberNamed(Head(names)).xml))
         IN (IF Trim(st) # <<>>
             THEN <<"--- SLIDE ">> \o Head(names) \o <<" ---", "\n">>
                      \o st \o <<"\n">>
             ELSE <<>>)
                \o OutputOf(Tail(names))

\* C22: the output of a successful PPTX extraction is, for the slides with
\* text in sorted order, the marker line that names the member, the text of
\* that slide and a newline, and nothing else.
C22_OutputIsMarkersAndTexts ==
    (PptxEnded /\ result.ok) =>
        result.v = OutputOf(SortSlides(ListedNames(file.zip.v)))

\* slide10 is first in the archive and last in the output; slide2 has no
\* text and is not in the output
C22_Witness ==
    /\ PptxEnded
    /\ Len(file.zip.v) = 3
    /\ file.zip.v[1].name = S10
    /\ \E m \in Range(file.zip.v) : m.name = S2 /\ m.xml = BlankXml
    /\ result = Ok(<<"--- SLIDE ", SlidePrefix, "1", XmlSuffix, " ---", "\n",
                     "A", " ", "\n",
                     "--- SLIDE ", SlidePrefix, "1", "0", XmlSuffix, " ---",
                     "\n", "C", " ", "\n">>)

\* ------------------------------------------------------- equal ordinals
ArchiveNames == [i \in 1..Len(file.zip.v) |-> file.zip.v[i].name]

\* names of the same number are in the order they have in the archive
InArchiveOrderWhenEqual(names) ==
    \A i, j \in 1..Len(names) :
        (i < j /\ extract_num(names[i]) = extract_num(names[j]))
            => PlaceIn(ArchiveNames, names[i]) < PlaceIn(ArchiveNames, names[j])

\* C23: slides of the same ordinal, those of ordinal 0 for want of a number
\* among them, keep the order their members have in the archive, in the
\* sorted list and in the output.
C23_EqualOrdinalsKeepArchiveOrder ==
    /\ (pc \in {"slides", "events", "emit"} /\ route = "pptx")
           => InArchiveOrderWhenEqual(slide_files)
    /\ (PptxEnded /\ result.ok)
           => InArchiveOrderWhenEqual(MarkerNames(result.v))

\* three slides of ordinal 0 in the order of the archive, which is not the
\* order of their names
C23_Witness ==
    /\ PptxEnded
    /\ result.ok
    /\ ArchiveNames = <<SBad, SBig, SEmpty>>
    /\ MarkerNames(result.v) = <<SBad, SBig, SEmpty>>

\* ---------------------------------------------- what a DOCX body gives
\* the paragraphs among the children of the document, in order
RECURSIVE ParagraphsOf(_)
ParagraphsOf(doc) ==
    IF doc = <<>> THEN <<>>
    ELSE (IF Head(doc).k = "Paragraph" THEN <<Head(doc)>> ELSE <<>>)
             \o ParagraphsOf(Tail(doc))

\* C24: the output of the DOCX extractor has one line per top-level
\* paragraph, with the text nodes of the runs that are children of the
\* paragraph.  A table adds no text and no line; a hyperlink, a tab and a
\* break add nothing.
C24_OnlyRunsOfTopLevelParagraphs ==
    (Done /\ route = "docx" /\ file.exists /\ file.docx.ok) =>
        LET paras == ParagraphsOf(file.docx.v)
            lines == LinesOf(result.v, <<>>)
        IN /\ result.ok
           /\ Len(lines) = Len(paras)
           /\ CountOf(result.v, "\n") = Len(paras)
           /\ \A i \in 1..Len(paras) : lines[i] = WrittenText(paras[i])
           /\ Range(result.v) \cap {"cell", "link", "\t"} = {}

\* a table, a paragraph with a hyperlink and a tab, and a paragraph with a
\* break
C24_Witness ==
    /\ Done
    /\ route = "docx"
    /\ file.docx.v = <<PTable, PLink, PRuns>>
    /\ result = Ok(<<"see", "\n", "Good", "bye", "!", "\n">>)

\* ======================================================= vocabulary.rs
\* most commands a run of the vocabulary commands invokes
MaxCalls == 2

\* str::to_lowercase on the words of the category names
LowerWord(t) ==
    CASE t = "My" -> "my"
      [] t = "Vocabularies" -> "vocabularies"
      [] t = "Work" -> "work"
      [] t = "WORK" -> "work"
      [] OTHER -> t

\* faulty variant: the name is the id
CategoryIdAsNamed(name) == name

\* line 322: name.to_lowercase().replace(' ', "-")
CategoryId(name) ==
    [i \in 1..Len(name) |->
        IF name[i] = " " THEN "-" ELSE LowerWord(name[i])]

CategoryOf(id, name, sys) == [id |-> id, name |-> name, is_system |-> sys]

\* the fields of Vocabulary but the two time stamps
VocabularyOf(id, name, category, terms, sys) ==
    [id |-> id, name |-> name, category |-> category, terms |-> terms,
     is_system |-> sys]

\* Uuid::new_v4().to_string(): the n-th id that is generated
Uuid(n) == <<"uuid", n>>

\* lines 121-128: the default user data
DefaultUserData ==
    [categories |-> <<CategoryOf(<<"my", "-", "vocabularies">>,
                                 <<"My", " ", "Vocabularies">>, FALSE)>>,
     vocabularies |-> <<>>]

\* lines 109-130: load_user_vocabularies
LoadUser(f) ==
    IF f.exists
    THEN [categories |-> f.categories, vocabularies |-> f.vocabularies]
    ELSE DefaultUserData

\* lines 132-144: save_user_vocabularies
SaveUser(data) ==
    [exists |-> TRUE, categories |-> data.categories,
     vocabularies |-> data.vocabularies]

\* the files of vocabularies/system
SystemFiles ==
    <<[category |-> CategoryOf(<<"medical">>, <<"Medical">>, FALSE),
       vocabularies |-> <<VocabularyOf(<<"sys", 1>>, <<"Cardiology">>,
                                       <<>>, "stent", FALSE)>>]>>

\* lines 163-172: category and vocabularies of one system file, marked
SystemCategories ==
    [i \in 1..Len(SystemFiles) |->
        [SystemFiles[i].category EXCEPT !.is_system = TRUE]]

RECURSIVE SystemVocabularies(_)
SystemVocabularies(files) ==
    IF files = <<>> THEN <<>>
    ELSE [k \in 1..Len(Head(files).vocabularies) |->
             [Head(files).vocabularies[k] EXCEPT
                 !.is_system = TRUE,
                 !.category = Head(files).category.id]]
             \o SystemVocabularies(Tail(files))

\* lines 146-191: load_vocabularies
LoadVocabularies(f) ==
    [categories |-> SystemCategories \o LoadUser(f).categories,
     vocabularies |-> SystemVocabularies(SystemFiles)
                          \o LoadUser(f).vocabularies]

\* the place of the first vocabulary of that id, 0 when there is none
FindVocabulary(vs, id) ==
    IF \E i \in 1..Len(vs) : vs[i].id = id
    THEN CHOOSE i \in 1..Len(vs) :
             vs[i].id = id /\ \A j \in 1..(i - 1) : vs[j].id # id
    ELSE 0

\* Vec::retain(|v| v.id != id)
RECURSIVE Retain(_, _)
Retain(vs, id) ==
    IF vs = <<>> THEN <<>>
    ELSE (IF Head(vs).id # id THEN <<Head(vs)>> ELSE <<>>)
             \o Retain(Tail(vs), id)

\* lines 351-355: the categories of the import whose id is not there yet
RECURSIVE MergeCategories(_, _)
MergeCategories(cats, new) ==
    IF new = <<>> THEN cats
    ELSE MergeCategories(
             IF \E i \in 1..Len(cats) : cats[i].id = Head(new).id
             THEN cats
             ELSE Append(cats, Head(new)),
             Tail(new))

\* faulty variant: the imported vocabularies keep the ids of the export
ImportedKeepingIds(vs, n) ==
    [k \in 1..Len(vs) |-> [vs[k] EXCEPT !.is_system = FALSE]]

\* lines 358-362: the vocabularies of the import under new ids
Imported(vs, n) ==
    [k \in 1..Len(vs) |->
        [vs[k] EXCEPT !.id = Uuid(n + k), !.is_system = FALSE]]

SystemVocabularyError == Err(<<"Cannot modify system vocabulary">>)

NotFoundError(id) == Err(<<"Not found: ", "Vocabulary ", id, " not found">>)

ParseError == Err(<<"Parse error: ", "expected value">>)

\* ------------------------------------------- the commands and their steps
OpOf(cmd, id, name, category, terms, json) ==
    [cmd |-> cmd, id |-> id, name |-> name, category |-> category,
     terms |-> terms, json |-> json]

NoJson == [valid |-> FALSE, data |-> NoData]

\* a system vocabulary, the first vocabulary that is created, no vocabulary
TargetIds == {<<"sys", 1>>, Uuid(1), <<"nope", 0>>}

WorkCategory == CategoryOf(<<"work">>, <<"Work">>, FALSE)

\* strings given to import_vocabularies: an export of another installation
\* (with an id that is in use here and a system flag), categories only,
\* and a string that is not JSON
ImportJsons ==
    {[valid |-> TRUE,
      data |-> [categories |-> <<WorkCategory>>,
                vocabularies |->
                    <<VocabularyOf(Uuid(1), <<"Theirs">>, <<"work">>,
                                   "statin", TRUE),
                      VocabularyOf(<<"sys", 1>>, <<"Copy">>, <<"medical">>,
                                   "stent", FALSE)>>]],
     [valid |-> TRUE,
      data |-> [categories |-> <<DefaultUserData.categories[1], WorkCategory,
                                 WorkCategory>>,
                vocabularies |-> <<>>]],
     NoJson}

VocabOps ==
    {OpOf("create", <<>>, <<"Drugs">>, <<"my", "-", "vocabularies">>,
          "aspirin", NoJson)}
        \cup {OpOf("update", id, <<"Renamed">>, <<>>, "", NoJson) :
                  id \in TargetIds}
        \cup {OpOf("delete", id, <<>>, <<>>, "", NoJson) : id \in TargetIds}
        \cup {OpOf("category", <<>>, n, <<>>, "", NoJson) :
                  n \in {<<"Work">>, <<"WORK">>, <<"My", " ", "Vocabularies">>}}
        \cup {OpOf("import", <<>>, <<>>, <<>>, "", j) : j \in ImportJsons}

\* the front end invokes a command
VBegin(p) ==
    /\ vpc[p] = "idle"
    /\ vcalls < MaxCalls
    /\ \E op \in VocabOps : vop' = [vop EXCEPT ![p] = op]
    /\ vpc' = [vpc EXCEPT ![p] = "called"]
    /\ vret' = [vret EXCEPT ![p] = NoResult]
    /\ vcalls' = vcalls + 1
    /\ UNCHANGED <<docVars, histVars, truncVars, userFile, vloc, nextId>>

\* a command is invoked while no other command is under way
VBeginAlone(p) ==
    /\ \A q \in Procs : vpc[q] \in {"idle", "done"}
    /\ VBegin(p)

\* what precedes load_user_vocabularies and the load itself: lines 202-213,
\* 230, 261, 321-327, 343-346
VLoad(p) ==
    /\ vpc[p] = "called"
    /\ IF vop[p].cmd = "import" /\ ~vop[p].json.valid
       THEN /\ vret' = [vret EXCEPT ![p] = ParseError]
            /\ vpc' = [vpc EXCEPT ![p] = "done"]
            /\ UNCHANGED <<vloc, vop, nextId>>
       ELSE /\ vloc' = [vloc EXCEPT ![p] = LoadUser(userFile)]
            /\ vpc' = [vpc EXCEPT ![p] = "loaded"]
            /\ IF vop[p].cmd = "create"
               THEN /\ nextId' = nextId + 1
                    /\ vop' = [vop EXCEPT ![p].id = Uuid(nextId + 1)]
               ELSE UNCHANGED <<vop, nextId>>
            /\ UNCHANGED vret
    /\ UNCHANGED <<docVars, histVars, truncVars, userFile, vcalls>>

\* the command ends with r and writes nothing
VFail(p, r) ==
    /\ vret' = [vret EXCEPT ![p] = r]
    /\ UNCHANGED <<userFile, nextId>>

\* the command saves data and ends with r
VSaved(p, data, r) ==
    /\ userFile' = SaveUser(data)
    /\ vret' = [vret EXCEPT ![p] = r]

\* lines 214-217
CreateVocabulary(p) ==
    LET v == VocabularyOf(vop[p].id, vop[p].name, vop[p].category,
                          vop[p].terms, FALSE)
    IN /\ VSaved(p, [vloc[p] EXCEPT !.vocabularies = Append(@, v)], Ok(v))
       /\ UNCHANGED nextId

\* lines 232-254
UpdateVocabulary(p) ==
    LET i == FindVocabulary(vloc[p].vocabularies, vop[p].id)
    IN IF i = 0 THEN VFail(p, NotFoundError(vop[p].id))
       ELSE IF vloc[p].vocabularies[i].is_system
            THEN VFail(p, SystemVocabularyError)
            ELSE LET v == [vloc[p].vocabularies[i] EXCEPT
                               !.name = vop[p].name]
                 IN /\ VSaved(p, [vloc[p] EXCEPT !.vocabularies[i] = v], Ok(v))
                    /\ UNCHANGED nextId

\* lines 264-278
DeleteVocabulary(p) ==
    LET i == FindVocabulary(vloc[p].vocabularies, vop[p].id)
    IN IF i = 0 THEN VFail(p, NotFoundError(vop[p].id))
       ELSE IF vloc[p].vocabularies[i].is_system
            THEN VFail(p, SystemVocabularyError)
            ELSE /\ VSaved(p, [vloc[p] EXCEPT
                                  !.vocabularies = Retain(@, vop[p].id)],
                           Ok(<<>>))
                 /\ UNCHANGED nextId

\* lines 321-331
CreateVocabularyCategory(p) ==
    LET c == CategoryOf(CategoryId(vop[p].name), vop[p].name, FALSE)
    IN /\ VSaved(p, [vloc[p] EXCEPT !.categories = Append(@, c)], Ok(c))
       /\ UNCHANGED nextId

\* lines 348-366
ImportVocabularies(p) ==
    LET d == vop[p].json.data
    IN /\ VSaved(p,
                 [categories |-> MergeCategories(vloc[p].categories,
                                                 d.categories),
                  vocabularies |-> vloc[p].vocabularies
                                       \o Imported(d.vocabularies, nextId)],
                 Ok(Len(d.vocabularies)))
       /\ nextId' = nextId + Len(d.vocabularies)

\* what follows the load: the change of user_data, the save, the return
VSave(p) ==
    /\ vpc[p] = "loaded"
    /\ CASE vop[p].cmd = "create" -> CreateVocabulary(p)
         [] vop[p].cmd = "update" -> UpdateVocabulary(p)
         [] vop[p].cmd = "delete" -> DeleteVocabulary(p)
         [] vop[p].cmd = "category" -> CreateVocabularyCategory(p)
         [] vop[p].cmd = "import" -> ImportVocabularies(p)
    /\ vpc' = [vpc EXCEPT ![p] = "done"]
    /\ UNCHANGED <<docVars, histVars, truncVars, vop, vloc, vcalls>>

\* no extract_document_text call
DocIdle ==
    /\ path = <<>>
    /\ file = MissingFile
    /\ pc = "start"
    /\ route = "undecided"
    /\ opened = FALSE
    /\ result = NoResult
    /\ text = <<>>
    /\ rest = <<>>
    /\ idx = 1
    /\ slide_files = <<>>
    /\ cur = <<>>
    /\ xmlRest = <<>>
    /\ slide_text = <<>>
    /\ calls = 0
    /\ prev = NoResult
    /\ saved = <<>>

InitVocab == DocIdle /\ AppStarted

\* the commands one after the other
NextVocab ==
    \E p \in Procs :
        \/ VBeginAlone(p)
        \/ VLoad(p)
        \/ VSave(p)

SpecVocab == InitVocab /\ [][NextVocab]_vars

\* the commands on the threads of the runtime
NextVocabConc ==
    \E p \in Procs :
        \/ VBegin(p)
        \/ VLoad(p)
        \/ VSave(p)

SpecVocabConc == InitVocab /\ [][NextVocabConc]_vars

\* the ids that load_vocabularies returns with is_system = true
SystemIds(f) ==
    {LoadVocabularies(f).vocabularies[i].id :
        i \in {j \in 1..Len(LoadVocabularies(f).vocabularies) :
                   LoadVocabularies(f).vocabularies[j].is_system}}

\* p ends update_vocabulary or delete_vocabulary in this step
Modified(p) ==
    /\ vpc[p] = "loaded"
    /\ vop[p].cmd \in {"update", "delete"}
    /\ vpc'[p] = "done"

\* C25: update_vocabulary and delete_vocabulary, called with the id of a
\* vocabulary that load_vocabularies returns with is_system = true, fail with
\* "Cannot modify system vocabulary" and leave the stored vocabularies as
\* they were.
C25_SystemVocabularyRefused ==
    [][\A p \in Procs :
          Modified(p) /\ vop[p].id \in SystemIds(userFile)
              => /\ vret'[p] = SystemVocabularyError
                 /\ userFile' = userFile]_vars

\* the ids of a list of vocabularies
IdsOf(vs) == {vs[i].id : i \in 1..Len(vs)}

\* p ends import_vocabularies with success in this step
ImportSucceeds(p) ==
    /\ vpc[p] = "loaded"
    /\ vop[p].cmd = "import"
    /\ vpc'[p] = "done"
    /\ vret'[p].ok

\* vs with the id and the system flag left out
Contents(vs) ==
    [i \in 1..Len(vs) |->
        [name |-> vs[i].name, category |-> vs[i].category,
         terms |-> vs[i].terms]]

\* C26: after a successful import_vocabularies the user vocabularies are
\* the previous ones, unchanged and in order, followed by the imported ones,
\* each under an id that no stored or system vocabulary has and no other
\* imported one gets, with is_system = false; the count that is returned is
\* the number of vocabularies added.
C26_ImportAppendsUnderFreshIds ==
    [][\A p \in Procs :
          ImportSucceeds(p) =>
              LET old == LoadUser(userFile).vocabularies
                  new == userFile'.vocabularies
                  n == Len(new) - Len(old)
                  added == SubSeq(new, Len(old) + 1, Len(new))
              IN /\ n >= 0
                 /\ SubSeq(new, 1, Len(old)) = old
                 /\ Contents(added) = Contents(vop[p].json.data.vocabularies)
                 /\ \A i \in 1..n : ~added[i].is_system
                 /\ IdsOf(added) \cap (IdsOf(old) \cup SystemIds(userFile))
                        = {}
                 /\ Cardinality(IdsOf(added)) = n
                 /\ vret'[p] = Ok(n)]_vars

\* an import of two vocabularies, one under the id of the stored one and one
\* under the id of a system vocabulary, has ended next to the stored one
C26_Witness ==
    \E p \in Procs :
        /\ vpc[p] = "done"
        /\ vop[p].cmd = "import"
        /\ vret[p] = Ok(2)
        /\ Len(userFile.vocabularies) = 3
        /\ userFile.vocabularies[1].id
               \in IdsOf(vop[p].json.data.vocabularies)

\* C27: the ids of the stored user categories are pairwise distinct after
\* any sequence of create_vocabulary_category and import_vocabularies calls
\* that starts from the default user data.
C27_CategoryIdsDistinct ==
    LET cats == LoadUser(userFile).categories
    IN \A i, j \in 1..Len(cats) : cats[i].id = cats[j].id => i = j

\* p has ended create_vocabulary with success
Created(p) == vpc[p] = "done" /\ vop[p].cmd = "create" /\ vret[p].ok

\* C28: when two create_vocabulary calls run concurrently and both return
\* success, the stored user vocabularies hold the vocabulary of each.
C28_NoLostUpdate ==
    \A p, q \in Procs :
        p # q /\ Created(p) /\ Created(q)
            => {vop[p].id, vop[q].id} \subseteq IdsOf(userFile.vocabularies)

\* ------------------------------------------------------------ history.rs
SomeEntry(e) == [some |-> TRUE, v |-> e]

\* a string given to save_history_entry: whether it is JSON, whether its
\* "id" is a string, that id, and the rest of it
EntryOf(valid, hasId, id, body) ==
    [valid |-> valid, hasId |-> hasId, id |-> id, body |-> body]

HistoryEntries ==
    {EntryOf(TRUE, TRUE, <<"a">>, 1), EntryOf(TRUE, TRUE, <<"a">>, 2),
     EntryOf(TRUE, TRUE, <<"./", "a">>, 3), EntryOf(TRUE, TRUE, <<"b">>, 1),
     EntryOf(FALSE, FALSE, <<>>, 0), EntryOf(TRUE, FALSE, <<>>, 0)}

\* the file that a path names: its components without the "./" ones
RECURSIVE Resolved(_)
Resolved(components) ==
    IF components = <<>> THEN <<>>
    ELSE (IF Head(components) = "./" THEN <<>> ELSE <<Head(components)>>)
             \o Resolved(Tail(components))

\* history_dir.join(format!("{}.json", id)): lines 64, 134, 151
FileOf(id) == Resolved(Append(id, ".json"))

InvalidJson == Err(<<"Write error: ", "Invalid JSON: ", "expected value">>)

MissingId == Err(<<"Write error: ", "Missing id field">>)

\* lines 53-71
save_history_entry(entry) ==
    /\ IF ~entry.valid
       THEN /\ hret' = [cmd |-> "save", id |-> <<>>, v |-> InvalidJson]
            /\ UNCHANGED <<hfiles, hexpect>>
       ELSE IF ~entry.hasId
            THEN /\ hret' = [cmd |-> "save", id |-> <<>>, v |-> MissingId]
                 /\ UNCHANGED <<hfiles, hexpect>>
            ELSE /\ hfiles' = [hfiles EXCEPT
                                  ![FileOf(entry.id)] = SomeEntry(entry)]
                 /\ hexpect' = [hexpect EXCEPT
                                   ![entry.id] = SomeEntry(entry)]
                 /\ hret' = [cmd |-> "save", id |-> entry.id, v |-> Ok(<<>>)]
    /\ UNCHANGED <<docVars, vocVars, truncVars>>

\* lines 132-145
get_history_entry(id) ==
    /\ hret' = [cmd |-> "get", id |-> id, v |-> Ok(hfiles[FileOf(id)])]
    /\ UNCHANGED <<docVars, vocVars, truncVars, hfiles, hexpect>>

\* lines 149-160
delete_history_entry(id) ==
    /\ hfiles' = [hfiles EXCEPT ![FileOf(id)] = NoEntry]
    /\ hexpect' = [hexpect EXCEPT ![id] = NoEntry]
    /\ hret' = [cmd |-> "delete", id |-> id, v |-> Ok(<<>>)]
    /\ UNCHANGED <<docVars, vocVars, truncVars>>

NextHistory ==
    \/ \E entry \in HistoryEntries : save_history_entry(entry)
    \/ \E id \in HistoryIds : get_history_entry(id)
    \/ \E id \in HistoryIds : delete_history_entry(id)

SpecHistory == InitVocab /\ [][NextHistory]_vars

\* C29: get_history_entry(id) returns the string of the most recent
\* successful save for that id if no delete of that id followed it, and
\* None otherwise.
C29_GetReturnsLastSave ==
    hret.cmd = "get" => hret.v = Ok(hexpect[hret.id])

\* ------------------------- vocabulary_extract.rs: extract_vocabulary_terms
MaxRuns == 2

\* line 193
TruncateLimit == 60000

\* a text is a sequence of runs of n characters of w bytes each
CharsOf(w, n) == [w |-> w, n |-> n]

RunCounts == {1, 29999, 30000, 59999, 60000}

CharRuns == {CharsOf(w, n) : w \in 1..3, n \in RunCounts}

TextsOfRuns(k) == [1..k -> CharRuns]

Texts == UNION {TextsOfRuns(k) : k \in 0..MaxRuns}

\* str::len: the length in bytes
RECURSIVE ByteLen(_)
ByteLen(t) ==
    IF t = <<>> THEN 0 ELSE Head(t).w * Head(t).n + ByteLen(Tail(t))

\* str::is_char_boundary
RECURSIVE IsCharBoundary(_, _)
IsCharBoundary(t, i) ==
    IF t = <<>> THEN i = 0
    ELSE IF i < Head(t).w * Head(t).n
         THEN i % Head(t).w = 0
         ELSE IsCharBoundary(Tail(t), i - Head(t).w * Head(t).n)

\* the characters before byte i, a character boundary
RECURSIVE UpTo(_, _)
UpTo(t, i) ==
    IF t = <<>> \/ i = 0 THEN <<>>
    ELSE IF i < Head(t).w * Head(t).n
         THEN <<CharsOf(Head(t).w, i \div Head(t).w)>>
         ELSE <<Head(t)>> \o UpTo(Tail(t), i - Head(t).w * Head(t).n)

\* text[..60000] on a byte that is inside a character
Panicked ==
    [ok |-> FALSE, v |-> <<"byte index 60000 is not a char boundary">>]

\* lines 193-197
Truncate ==
    /\ tout = NoResult
    /\ tout' = IF ByteLen(tin) > TruncateLimit
               THEN IF IsCharBoundary(tin, TruncateLimit)
                    THEN Ok(UpTo(tin, TruncateLimit))
                    ELSE Panicked
               ELSE Ok(tin)
    /\ UNCHANGED <<docVars, vocVars, histVars, tin>>

InitTrunc ==
    /\ DocIdle
    /\ StoresStarted
    /\ tin \in Texts
    /\ tout = NoResult

NextTrunc == Truncate

SpecTrunc == InitTrunc /\ [][NextTrunc]_vars

\* C30: the text that is forwarded is the extracted text when that is at
\* most 60000 bytes long and otherwise its first 60000 bytes; the truncation
\* completes for every input string.
C30_TruncationCompletes ==
    tout # NoResult
        => /\ tout.ok
           /\ IF ByteLen(tin) <= TruncateLimit
              THEN tout.v = tin
              ELSE ByteLen(tout.v) = TruncateLimit

====
